---- MODULE Spec2Model ----
(***************************************************************************)
(* Shirt catalogue service: the Shirt / ShirtSize store, the Redis        *)
(* cache-aside layer of the listing, and the create / batch-create /      *)
(* update / delete / list operations of services/shirt.service.ts.        *)
(*                                                                         *)
(* Money is counted in thousandths of a currency unit, so that a price    *)
(* with more than two decimals (the validators admit any number in        *)
(* [0, 10000]) and the rounding to two decimals are both representable:   *)
(* 2500 units is 2500000, one cent is 10.  Floating point error of the    *)
(* JavaScript arithmetic is not modelled; Math.round is round-half-up.    *)
(*                                                                         *)
(* A JavaScript string that may be undefined is "" when absent (the code  *)
(* only tests such values for truthiness); a number that may be undefined *)
(* is Undefined when absent; an absent discount is NoDiscount.            *)
(***************************************************************************)
EXTENDS Integers, Sequences, FiniteSets, TLC

(***************************************************************************)
(* Bounds of the model.                                                    *)
(***************************************************************************)
\* Shirt documents ever created (ids 1..MaxShirts; an ObjectId is never reused).
MaxShirts == 2
\* Service calls started in one behaviour, over all request handlers.
MaxOps == 2
\* Calls of getRedisClient in one behaviour.
MaxCalls == 3

\* The request handlers that run concurrently (one service call each at a time).
Procs == {"p1", "p2"}

Undefined == 0 - 1
NoDiscount == [type |-> "none", value |-> 0]

Max(a, b) == IF a > b THEN a ELSE b
Min(a, b) == IF a < b THEN a ELSE b
Range(s) == {s[i] : i \in DOMAIN s}

(***************************************************************************)
(* calculateFinalPrice and the ShirtSize pre-save hook.                    *)
(***************************************************************************)
\* Math.round(x * 100) / 100 for x * 100 = num / den >= 0, in thousandths.
\* The arithmetic is exact here; the doubles of the code can differ from it
\* only where x * 100 lies on a half.
Round2(num, den) == ((2 * num + den) \div (2 * den)) * 10

\* A plausible slip: the amount branch without Math.max(0, ...), the
\* percentage branch subtracting the value instead of scaling by it.
calculateFinalPrice_NoClamp(price, discount) ==
    CASE discount.type = "amount" -> Round2(price - discount.value, 10)
      [] discount.type = "percentage" -> Round2(Max(0, price - discount.value * 1000), 10)
      [] OTHER -> Round2(price, 10)

\* finalPrice starts as price; an 'amount' discount gives max(0, price - value),
\* a 'percentage' discount max(0, price * (1 - value / 100)); the result is
\* always rounded to two decimals.  discount.value is in thousandths for
\* 'amount' and in percent for 'percentage'.
calculateFinalPrice(price, discount) ==
    CASE discount.type = "amount" -> Round2(Max(0, price - discount.value), 10)
      [] discount.type = "percentage" -> Round2(Max(0, price * (100 - discount.value)), 1000)
      [] OTHER -> Round2(price, 10)

\* The discount the pre-save hook of a ShirtSize finds: that of the parent
\* Shirt as stored now, none when the Shirt is gone (findById gives null).
ParentDiscount(shirtId, shirtDocs) ==
    IF \E s \in shirtDocs : s.id = shirtId
    THEN (CHOOSE s \in shirtDocs : s.id = shirtId).discount
    ELSE NoDiscount

\* shirtSizeSchema.pre('save'): finalPrice from the price being saved and the
\* stored parent's discount.
PreSaveFinalPrice(price, shirtId, shirtDocs) ==
    calculateFinalPrice(price, ParentDiscount(shirtId, shirtDocs))

(***************************************************************************)
(* Reference data (seed-reference-data.ts) and its in-memory name cache.   *)
(***************************************************************************)
SizeReferences ==
    { [id |-> "oidM",   name |-> "M",   ord |-> 0],
      [id |-> "oidL",   name |-> "L",   ord |-> 1],
      [id |-> "oidXL",  name |-> "XL",  ord |-> 2],
      [id |-> "oidXXL", name |-> "XXL", ord |-> 3] }
SizeReferenceIds == {r.id : r \in SizeReferences}

ShirtTypes ==
    { [id |-> "oidCasual", name |-> "Casual"],
      [id |-> "oidFormal", name |-> "Formal"] }
ShirtTypeIds == {t.id : t \in ShirtTypes}

\* Strings of the model with the shape of an ObjectId (24 hex digits); oidNone
\* is well formed and names no document.
ObjectIdStrings == SizeReferenceIds \cup ShirtTypeIds \cup {"oidNone"}
isValidObjectId(value) == value \in ObjectIdStrings

toUpperCase(s) ==
    CASE s = "m" -> "M" [] s = "l" -> "L" [] s = "xl" -> "XL" [] s = "xxl" -> "XXL"
      [] OTHER -> s
toLowerCase(s) ==
    CASE s = "Casual" -> "casual" [] s = "Formal" -> "formal"
      [] s = "CASUAL" -> "casual" [] s = "FORMAL" -> "formal"
      [] OTHER -> s

\* resolveSizeReference: an ObjectId-shaped string is returned as it is, any
\* other string is looked up by upper-cased name; "ERR" is the thrown Error.
resolveSizeReference(sizeParam) ==
    IF isValidObjectId(sizeParam) THEN sizeParam
    ELSE IF \E r \in SizeReferences : r.name = toUpperCase(sizeParam)
         THEN (CHOOSE r \in SizeReferences : r.name = toUpperCase(sizeParam)).id
         ELSE "ERR"

resolveShirtType(typeParam) ==
    IF isValidObjectId(typeParam) THEN typeParam
    ELSE IF \E t \in ShirtTypes : toLowerCase(t.name) = toLowerCase(typeParam)
         THEN (CHOOSE t \in ShirtTypes : toLowerCase(t.name) = toLowerCase(typeParam)).id
         ELSE "ERR"

(***************************************************************************)
(* generateCacheKey.                                                       *)
(***************************************************************************)
Digit3(n) ==
    IF n % 100 = 0 THEN ToString(n \div 100)
    ELSE IF n % 10 = 0
         THEN (IF n < 100 THEN "0" ELSE "") \o ToString(n \div 10)
         ELSE (IF n < 10 THEN "00" ELSE IF n < 100 THEN "0" ELSE "") \o ToString(n)

\* `${n}` for a price filter n (in thousandths): 1000000 is "1000", 1500 is "1.5".
PriceStr(n) ==
    IF n % 1000 = 0 THEN ToString(n \div 1000)
    ELSE ToString(n \div 1000) \o "." \o Digit3(n % 1000)

\* a || b on strings.
OrElse(a, b) == IF a # "" THEN a ELSE b

RECURSIVE JoinParts(_)
\* parts.join(':'), each part being `${label}:${value}`.
JoinParts(parts) ==
    IF Len(parts) = 0 THEN ""
    ELSE IF Len(parts) = 1 THEN parts[1][1] \o ":" \o parts[1][2]
    ELSE parts[1][1] \o ":" \o parts[1][2] \o ":" \o JoinParts(Tail(parts))

\* A plausible slip: minPrice pushed after maxPrice, and pushed even when absent.
CacheKeyParts_Unordered(filters) ==
    LET sizeParam == OrElse(filters.sizeReferenceId, filters.size)
        typeParam == OrElse(filters.shirtTypeId, filters.type)
    IN  <<<<"shirts", "list">>>>
        \o (IF sizeParam # "" THEN <<<<"size", sizeParam>>>> ELSE <<>>)
        \o (IF typeParam # "" THEN <<<<"type", typeParam>>>> ELSE <<>>)
        \o (IF filters.maxPrice # Undefined
            THEN <<<<"maxPrice", PriceStr(filters.maxPrice)>>>> ELSE <<>>)
        \o <<<<"minPrice", IF filters.minPrice # Undefined
                           THEN PriceStr(filters.minPrice) ELSE "undefined">>>>
        \o <<<<"page", ToString(filters.page)>>, <<"limit", ToString(filters.limit)>>>>

\* The parts array of generateCacheKey: 'shirts:list', then one part per
\* dimension that is present, in the order of the code.
CacheKeyParts(filters) ==
    LET sizeParam == OrElse(filters.sizeReferenceId, filters.size)
        typeParam == OrElse(filters.shirtTypeId, filters.type)
    IN  <<<<"shirts", "list">>>>
        \o (IF sizeParam # "" THEN <<<<"size", sizeParam>>>> ELSE <<>>)
        \o (IF typeParam # "" THEN <<<<"type", typeParam>>>> ELSE <<>>)
        \o (IF filters.minPrice # Undefined
            THEN <<<<"minPrice", PriceStr(filters.minPrice)>>>> ELSE <<>>)
        \o (IF filters.maxPrice # Undefined
            THEN <<<<"maxPrice", PriceStr(filters.maxPrice)>>>> ELSE <<>>)
        \o <<<<"page", ToString(filters.page)>>, <<"limit", ToString(filters.limit)>>>>

generateCacheKey(filters) == JoinParts(CacheKeyParts(filters))

(***************************************************************************)
(* The store: the shirts and shirtsizes collections.                       *)
(*   Shirt     [id, userId, name, shirtTypeId, discount]                   *)
(*   ShirtSize [id, shirtId, sizeReferenceId, price, stock, finalPrice]    *)
(* Ids are handed out in creation order, so the id order is both the       *)
(* natural order of a collection and the createdAt order.                  *)
(***************************************************************************)
RECURSIVE SortById(_)
\* The documents of a set in natural (insertion) order.
SortById(S) ==
    IF S = {} THEN <<>>
    ELSE LET m == CHOOSE x \in S : \A y \in S : x.id <= y.id
         IN  <<m>> \o SortById(S \ {m})

Reverse(s) == [i \in 1..Len(s) |-> s[Len(s) + 1 - i]]

\* $skip then $limit.
SkipLimit(s, skip, limit) == SubSeq(s, skip + 1, Min(Len(s), skip + limit))

\* Math.ceil(total / limit).
CeilDiv(total, limit) == (total + limit - 1) \div limit

ShirtById(shirtDocs, id) == CHOOSE s \in shirtDocs : s.id = id
SizeRefById(id) == CHOOSE r \in SizeReferences : r.id = id
ShirtTypeById(id) == CHOOSE t \in ShirtTypes : t.id = id

\* Shirt.findOne({ _id: shirtId, userId }): the owner's shirt, or none.
FindOwnedShirt_AnyOwner(shirtDocs, shirtId, userId) ==
    {s \in shirtDocs : s.id = shirtId}

FindOwnedShirt(shirtDocs, shirtId, userId) ==
    {s \in shirtDocs : s.id = shirtId /\ s.userId = userId}

(***************************************************************************)
(* listShirts: the two aggregation pipelines.                              *)
(***************************************************************************)
\* { $match: matchQuery }: the resolved size and the finalPrice range.
MatchQuery(v, sizeId, filters) ==
    /\ sizeId = "" \/ v.sizeReferenceId = sizeId
    /\ filters.minPrice = Undefined \/ v.finalPrice >= filters.minPrice
    /\ filters.maxPrice = Undefined \/ v.finalPrice <= filters.maxPrice

\* $match, $lookup shirts, $unwind $shirt, $match on the resolved type.
MatchedWithShirt(filters, sizeId, typeId, shirtDocs, sizeDocs) ==
    {v \in sizeDocs :
        /\ MatchQuery(v, sizeId, filters)
        /\ \E s \in shirtDocs : s.id = v.shirtId /\ (typeId = "" \/ s.shirtTypeId = typeId)}

\* ... then $lookup / $unwind of the shirt type and of the size reference.
FullyJoined(filters, sizeId, typeId, shirtDocs, sizeDocs) ==
    {v \in MatchedWithShirt(filters, sizeId, typeId, shirtDocs, sizeDocs) :
        /\ ShirtById(shirtDocs, v.shirtId).shirtTypeId \in ShirtTypeIds
        /\ v.sizeReferenceId \in SizeReferenceIds}

UngroupedItem(v, s) ==
    [_id |-> v.id, shirtId |-> v.shirtId, userId |-> s.userId, name |-> s.name,
     shirtTypeId |-> s.shirtTypeId, discount |-> s.discount,
     sizeReferenceId |-> v.sizeReferenceId, price |-> v.price, stock |-> v.stock,
     finalPrice |-> v.finalPrice]

\* The standard listing: one item per variant, newest first, one page of it;
\* total comes from the second pipeline.
ListUngrouped(filters, sizeId, typeId, shirtDocs, sizeDocs) ==
    LET docs == Reverse(SortById(FullyJoined(filters, sizeId, typeId, shirtDocs, sizeDocs)))
        items == [i \in 1..Len(docs) |->
                    UngroupedItem(docs[i], ShirtById(shirtDocs, docs[i].shirtId))]
        total == Cardinality(MatchedWithShirt(filters, sizeId, typeId, shirtDocs, sizeDocs))
    IN  [shirts |-> SkipLimit(items, (filters.page - 1) * filters.limit, filters.limit),
         total |-> total, page |-> filters.page, limit |-> filters.limit,
         totalPages |-> CeilDiv(total, filters.limit), grouped |-> FALSE]

RECURSIVE SumStock(_)
SumStock(s) == IF Len(s) = 0 THEN 0 ELSE s[1].stock + SumStock(Tail(s))

\* sizeOrderMap.get(id) || 999: an order of 0 is falsy and becomes 999.
SizeOrderKey(sizeReferenceId) ==
    IF sizeReferenceId \in SizeReferenceIds /\ SizeRefById(sizeReferenceId).ord # 0
    THEN SizeRefById(sizeReferenceId).ord
    ELSE 999

RECURSIVE InsertByOrder(_, _)
InsertByOrder(sorted, v) ==
    IF Len(sorted) = 0 THEN <<v>>
    ELSE IF SizeOrderKey(sorted[1].sizeReferenceId) <= SizeOrderKey(v.sizeReferenceId)
         THEN <<sorted[1]>> \o InsertByOrder(Tail(sorted), v)
         ELSE <<v>> \o sorted

RECURSIVE SortBySizeOrder(_)
\* design.variants.sort((a, b) => orderA - orderB), a stable sort.
SortBySizeOrder(vs) ==
    IF Len(vs) = 0 THEN <<>>
    ELSE InsertByOrder(SortBySizeOrder(SubSeq(vs, 1, Len(vs) - 1)), vs[Len(vs)])

RECURSIVE FilterInStock(_)
FilterInStock(vs) ==
    IF Len(vs) = 0 THEN <<>>
    ELSE (IF vs[1].stock > 0 THEN <<vs[1].sizeName>> ELSE <<>>) \o FilterInStock(Tail(vs))

GroupVariant(v) ==
    [_id |-> v.id, sizeReferenceId |-> v.sizeReferenceId,
     sizeName |-> SizeRefById(v.sizeReferenceId).name,
     price |-> v.price, stock |-> v.stock, finalPrice |-> v.finalPrice]

\* One $group document, after the variant sort and availableSizes of the code.
GroupItem(s, members) ==
    LET pushed == SortById(members)
        variants == [i \in 1..Len(pushed) |-> GroupVariant(pushed[i])]
        sortedVariants == SortBySizeOrder(variants)
    IN  [_id |-> s.id, userId |-> s.userId, name |-> s.name,
         shirtTypeId |-> s.shirtTypeId, shirtType |-> ShirtTypeById(s.shirtTypeId).name,
         discount |-> s.discount, variants |-> sortedVariants,
         totalStock |-> SumStock(variants),
         availableSizes |-> FilterInStock(sortedVariants)]

\* The position of a design name in the collation of $sort: { name: 1 }.
NameRank(name) == CASE name = "Alpha" -> 1 [] name = "Beta" -> 2 [] OTHER -> 3

\* The orders in which one execution of the pipeline can leave groups whose
\* sort keys are equal: every order of the shirt ids.
TieOrders ==
    {t \in [1..MaxShirts -> 1..MaxShirts] : \A i, j \in 1..MaxShirts : t[i] = t[j] => i = j}
TiePos(tie, id) == CHOOSE i \in 1..MaxShirts : tie[i] = id

RECURSIVE SortByName(_, _)
\* $sort: { name: 1, 'shirtType.name': 1 } over the projected groups, where
\* shirtType is a string: the groups are ordered by name alone, and groups of
\* equal name come in the order this execution leaves them in.
SortByName(S, tie) ==
    IF S = {} THEN <<>>
    ELSE LET m == CHOOSE x \in S : \A y \in S :
                    \/ NameRank(x.name) < NameRank(y.name)
                    \/ /\ NameRank(x.name) = NameRank(y.name)
                       /\ TiePos(tie, x.id) <= TiePos(tie, y.id)
         IN  <<m>> \o SortByName(S \ {m}, tie)

\* The grouped listing: one group per shirt that has a joined variant.
ListGrouped(filters, sizeId, typeId, shirtDocs, sizeDocs, tie) ==
    LET joined == FullyJoined(filters, sizeId, typeId, shirtDocs, sizeDocs)
        designs == SortByName({s \in shirtDocs : \E v \in joined : v.shirtId = s.id}, tie)
        groups == [i \in 1..Len(designs) |->
                     GroupItem(designs[i], {v \in joined : v.shirtId = designs[i].id})]
        total == Len(designs)
    IN  [shirts |-> SkipLimit(groups, (filters.page - 1) * filters.limit, filters.limit),
         total |-> total, page |-> filters.page, limit |-> filters.limit,
         totalPages |-> CeilDiv(total, filters.limit), grouped |-> TRUE]

\* The size and type parameters of a listing, resolved ("" when not given).
ResolvedSize(filters) ==
    IF OrElse(filters.sizeReferenceId, filters.size) = "" THEN ""
    ELSE resolveSizeReference(OrElse(filters.sizeReferenceId, filters.size))
ResolvedType(filters) ==
    IF OrElse(filters.shirtTypeId, filters.type) = "" THEN ""
    ELSE resolveShirtType(OrElse(filters.shirtTypeId, filters.type))

\* The result listShirts computes from the store on a cache miss.
QueryStore(filters, shirtDocs, sizeDocs, tie) ==
    IF filters.groupBy = "design"
    THEN ListGrouped(filters, ResolvedSize(filters), ResolvedType(filters), shirtDocs,
                     sizeDocs, tie)
    ELSE ListUngrouped(filters, ResolvedSize(filters), ResolvedType(filters), shirtDocs, sizeDocs)

(***************************************************************************)
(* The cache layer (cache.service.ts over the Redis client).  A Redis      *)
(* command either succeeds or throws (backend unreachable, time-out, error *)
(* reply); getRedisClient giving null has the effect of a throw that is    *)
(* caught.  "ERR" stands for the exception.                                *)
(***************************************************************************)
CacheKeys(c) == {e.key : e \in c}
CacheEntry(c, key) == CHOOSE e \in c : e.key = key

\* redis.get(key): the entries under the key (none on a miss), or a throw.
RedisGet(c, key, ok) ==
    [threw |-> ~ok, entries |-> IF ok THEN {e \in c : e.key = key} ELSE {}]

\* A plausible slip: no try/catch, the failure reaches listShirts.
getCachedShirtList_NoCatch(c, filters, ok) ==
    RedisGet(c, generateCacheKey(filters), ok)

\* getCachedShirtList: the cached entry, or nothing (null) on a miss and on any
\* failure, which the catch block absorbs.
getCachedShirtList(c, filters, ok) ==
    [threw |-> FALSE, entries |-> RedisGet(c, generateCacheKey(filters), ok).entries]

\* redis.setEx(key, CACHE_TTL, data) inside setCachedShirtList: the cache after
\* it; a failure is absorbed and leaves the cache as it is.
setCachedShirtList(c, filters, data, asOf, ok) ==
    IF ~ok THEN c
    ELSE {e \in c : e.key # generateCacheKey(filters)}
         \cup {[key |-> generateCacheKey(filters), value |-> data, asOf |-> asOf]}

\* Whether the ungrouped branch alone writes to the cache (the grouped branch
\* of listShirts returns without calling setCachedShirtList).
CachesResult_Always(filters) == TRUE
CachesResult(filters) == filters.groupBy # "design"

\* Whether a write goes on to invalidateShirtListCache: create, batch-create
\* and update do so whatever the counts; delete once deleteOne removed the shirt.
InvalidatesAfter_IfCounted(op, updatedCount, createdCount) ==
    IF op = "update" THEN updatedCount + createdCount > 0 ELSE TRUE
InvalidatesAfter(op, updatedCount, createdCount) == TRUE

(***************************************************************************)
(* The inputs of the requests: what the validators let through.            *)
(***************************************************************************)
Users == {"u1", "u2"}

Amount(v) == [type |-> "amount", value |-> v]
Percentage(v) == [type |-> "percentage", value |-> v]
SizeVariant(sizeReferenceId, price, stock) ==
    [sizeReferenceId |-> sizeReferenceId, price |-> price, stock |-> stock]

\* createShirt(userId, data).
CreateInputs ==
    { [userId |-> "u2", name |-> "Beta", shirtTypeId |-> "oidFormal",
       discount |-> Amount(500000), sizeVariant |-> SizeVariant("oidL", 3000000, 2)],
      [userId |-> "u2", name |-> "Beta", shirtTypeId |-> "oidFormal",
       discount |-> NoDiscount, sizeVariant |-> SizeVariant("oidNone", 3000000, 2)] }

\* batchCreateShirts(userId, data).
BatchInputs ==
    { [userId |-> "u2", name |-> "Alpha", shirtTypeId |-> "oidCasual",
       discount |-> Percentage(10),
       sizes |-> <<SizeVariant("oidM", 2500000, 3), SizeVariant("oidL", 10999, 0)>>],
      [userId |-> "u2", name |-> "Alpha", shirtTypeId |-> "oidNone",
       discount |-> NoDiscount, sizes |-> <<SizeVariant("oidM", 2500000, 3)>>],
      [userId |-> "u2", name |-> "Alpha", shirtTypeId |-> "oidCasual",
       discount |-> NoDiscount,
       sizes |-> <<SizeVariant("oidM", 2500000, 3), SizeVariant("oidNone", 1000000, 1)>>] }

NoVariant == [present |-> FALSE, price |-> Undefined, stock |-> Undefined]
CurrentVariant(price, stock) == [present |-> TRUE, price |-> price, stock |-> stock]

\* The bodies of PUT /shirts/:id: name "" / shirtTypeId "" / NoDiscount /
\* NoVariant / the empty sizes stand for fields that are not in the request.
UpdateInputs ==
    { [name |-> "", shirtTypeId |-> "", discount |-> Percentage(10),
       currentSizeVariant |-> NoVariant, sizes |-> <<>>],
      [name |-> "", shirtTypeId |-> "", discount |-> NoDiscount,
       currentSizeVariant |-> NoVariant, sizes |-> <<SizeVariant("oidL", 3000000, 4)>>],
      [name |-> "Beta", shirtTypeId |-> "oidFormal", discount |-> NoDiscount,
       currentSizeVariant |-> CurrentVariant(2000000, Undefined),
       sizes |-> <<SizeVariant("oidM", 1000000, 7), SizeVariant("oidXL", 1000000, 0)>>],
      [name |-> "", shirtTypeId |-> "", discount |-> NoDiscount,
       currentSizeVariant |-> NoVariant,
       sizes |-> <<SizeVariant("oidL", 1500000, 1), SizeVariant("oidNone", 1500000, 1)>>] }

\* Further bodies, for the reconciliation of sizes: the first variant's size
\* in the batch without a currentSizeVariant; the same size twice; every entry
\* at stock 0; a new price for the current variant and nothing else.
ReconcileInputs ==
    { [name |-> "", shirtTypeId |-> "", discount |-> NoDiscount,
       currentSizeVariant |-> NoVariant,
       sizes |-> <<SizeVariant("oidXL", 2600000, 9), SizeVariant("oidXXL", 3000000, 4)>>],
      [name |-> "", shirtTypeId |-> "", discount |-> NoDiscount,
       currentSizeVariant |-> CurrentVariant(Undefined, 6),
       sizes |-> <<SizeVariant("oidXL", 2600000, 9), SizeVariant("oidL", 2700000, 0),
                   SizeVariant("oidM", 2800000, 3)>>],
      [name |-> "", shirtTypeId |-> "", discount |-> NoDiscount,
       currentSizeVariant |-> NoVariant,
       sizes |-> <<SizeVariant("oidXXL", 1500000, 1), SizeVariant("oidNone", 1500000, 1)>>],
      [name |-> "", shirtTypeId |-> "", discount |-> NoDiscount,
       currentSizeVariant |-> NoVariant,
       sizes |-> <<SizeVariant("oidL", 3000000, 4), SizeVariant("oidL", 3000000, 4)>>],
      [name |-> "", shirtTypeId |-> "", discount |-> NoDiscount,
       currentSizeVariant |-> NoVariant,
       sizes |-> <<SizeVariant("oidL", 3000000, 0), SizeVariant("oidXL", 3000000, 0)>>],
      [name |-> "", shirtTypeId |-> "", discount |-> NoDiscount,
       currentSizeVariant |-> CurrentVariant(2000000, Undefined), sizes |-> <<>>] }

\* A plausible slip: the schema without its refinement on sizes.
updateShirtSchema_NoRefine(d) ==
    \A i \in 1..Len(d.sizes) : isValidObjectId(d.sizes[i].sizeReferenceId)

\* updateShirtSchema.parse(body) succeeds: every sizeReferenceId is an ObjectId
\* string and no two entries of sizes have the same one.
updateShirtSchema(d) ==
    /\ \A i \in 1..Len(d.sizes) : isValidObjectId(d.sizes[i].sizeReferenceId)
    /\ \A i, j \in 1..Len(d.sizes) :
          d.sizes[i].sizeReferenceId = d.sizes[j].sizeReferenceId => i = j

Filters(size, type, minPrice, maxPrice, page, limit, groupBy) ==
    [sizeReferenceId |-> "", size |-> size, shirtTypeId |-> "", type |-> type,
     minPrice |-> minPrice, maxPrice |-> maxPrice, page |-> page, limit |-> limit,
     groupBy |-> groupBy]

\* listShirts(filters).
ListInputs ==
    { Filters("", "", Undefined, Undefined, 1, 10, ""),
      Filters("L", "", Undefined, 3000000, 1, 10, ""),
      Filters("", "", Undefined, Undefined, 1, 10, "design"),
      Filters("huge", "", Undefined, Undefined, 1, 10, "") }

(***************************************************************************)
(* State.                                                                  *)
(***************************************************************************)
VARIABLES
    shirts,      \* the shirts collection
    shirtSizes,  \* the shirtsizes collection
    nextShirtId, \* the next Shirt _id
    nextSizeId,  \* the next ShirtSize _id
    cache,       \* the Redis keys shirts:list:*, each [key, value, asOf]
    pc,          \* where each request handler is in its service call
    loc,         \* the arguments and local variables of that call, and its result
    opsStarted,  \* service calls started so far
    storeVer,    \* history: how many times the store has changed
    committed,   \* history: storeVer right after the first change of the latest
                 \* write that has returned to its caller
    calc,        \* one evaluation of calculateFinalPrice
    keyReq,      \* two evaluations of generateCacheKey
    session,     \* one client paging through a listing: its filters and the
                 \* pages listShirts has returned to it so far
    redis        \* the module variables of the Redis client singleton
                 \* (redisClient, redisConnectionAttempted, redisAvailable)

storeVars == <<shirts, shirtSizes, nextShirtId, nextSizeId, storeVer>>
pureVars == <<calc, keyReq, session, redis>>
vars == <<shirts, shirtSizes, nextShirtId, nextSizeId, cache, pc, loc, opsStarted,
          storeVer, committed, calc, keyReq, session, redis>>

NoData == [kind |-> "none"]
NoDoc == [id |-> 0]
Pending == [kind |-> "pending"]
Error(name) == [kind |-> "error", error |-> name]

IdleLoc ==
    [op |-> "none", userId |-> "", shirtId |-> 0, data |-> NoData, doc |-> NoDoc,
     existing |-> <<>>, currentSizeRefId |-> "", i |-> 0,
     updated |-> <<>>, created |-> <<>>, keys |-> {}, removed |-> 0,
     trace |-> <<>>, cacheFailed |-> FALSE, queueFailed |-> FALSE,
     w0 |-> 0, asOf |-> 0, result |-> NoData]

SeedShirt ==
    [id |-> 1, userId |-> "u1", name |-> "Alpha", shirtTypeId |-> "oidCasual",
     discount |-> NoDiscount]
SeedSize ==
    [id |-> 1, shirtId |-> 1, sizeReferenceId |-> "oidM", price |-> 2500000,
     stock |-> 5, finalPrice |-> 2500000]

NoCalc == [price |-> 0, discount |-> NoDiscount, finalPrice |-> Undefined]
NoKeyReq == [r \in {1, 2} |-> [filters |-> Filters("", "", Undefined, Undefined, 1, 10, ""),
                                parts |-> <<>>, key |-> ""]]

\* The module of the Redis client as loaded: no client, no attempt made.
\* client is what redisClient refers to ("none" for null, else the state of
\* the client object); orphan tells that a client dropped by the catch block
\* is still connecting; inFlight, failed and created are history.
NoRedis ==
    [client |-> "none", attempted |-> FALSE, available |-> FALSE,
     openWhilePending |-> FALSE, orphan |-> FALSE,
     inFlight |-> 0, failed |-> FALSE, created |-> 0]

NoSession == [filters |-> Filters("", "", Undefined, Undefined, 1, 10, ""), results |-> <<>>]

\* The listing of everything, page 1, as cached by an earlier listShirts call.
SeedFilters == Filters("", "", Undefined, Undefined, 1, 10, "")
SeedEntry ==
    [key |-> generateCacheKey(SeedFilters),
     value |-> QueryStore(SeedFilters, {SeedShirt}, {SeedSize}, [i \in 1..MaxShirts |-> i]), asOf |-> 0]

\* The store with one shirt of seller u1 (one variant, size M) and no request
\* in progress.
InitStore ==
    /\ shirts = {SeedShirt}
    /\ shirtSizes = {SeedSize}
    /\ nextShirtId = 2
    /\ nextSizeId = 2
    /\ pc = [p \in Procs |-> "idle"]
    /\ loc = [p \in Procs |-> IdleLoc]
    /\ opsStarted = 0
    /\ storeVer = 0
    /\ committed = 0

\* The service at a moment when no request is in progress: the cache is empty
\* or holds the listing of the store cached by an earlier listShirts call.
Init ==
    /\ InitStore
    /\ cache \in {{}, {SeedEntry}}
    /\ calc = NoCalc
    /\ keyReq = NoKeyReq
    /\ session = NoSession
    /\ redis = NoRedis

(***************************************************************************)
(* Helpers of the actions.                                                 *)
(***************************************************************************)
\* The call of handler p is over: its result (or the Error it threw) is kept,
\* its locals are dropped.
Finish(p, l, result, event) ==
    /\ pc' = [pc EXCEPT ![p] = "idle"]
    /\ loc' = [loc EXCEPT ![p] =
                 [l EXCEPT !.result = result, !.data = NoData, !.doc = NoDoc,
                           !.existing = <<>>, !.currentSizeRefId = "", !.i = 0,
                           !.keys = {}, !.trace = Append(l.trace, event)]]

Goto(p, l, label) ==
    /\ pc' = [pc EXCEPT ![p] = label]
    /\ loc' = [loc EXCEPT ![p] = l]

\* History: the call has made a store write; w0 remembers the first that
\* changed the store.
Wrote(l, changed) ==
    [l EXCEPT !.trace = Append(l.trace, "store"),
              !.w0 = IF changed /\ l.w0 = 0 THEN storeVer + 1 ELSE l.w0]

Bump(changed) == storeVer' = IF changed THEN storeVer + 1 ELSE storeVer

\* After the store writes of a write operation.
AfterWrites(l) ==
    IF InvalidatesAfter(l.op, Len(l.updated), Len(l.created)) THEN "inv_keys" ELSE "audit"

\* Shirt ids are capped: a create starts only if an id is left for it.
PendingShirtSaves == Cardinality({q \in Procs : pc[q] \in {"cr_shirt", "bc_shirt"}})

\* The unique index { shirtId: 1, sizeReferenceId: 1 } of shirtsizes: whether
\* inserting the pair is refused (E11000 duplicate key).
DuplicateKey_NoIndex(sizeDocs, shirtId, sizeReferenceId) == FALSE
DuplicateKey(sizeDocs, shirtId, sizeReferenceId) ==
    \E v \in sizeDocs : v.shirtId = shirtId /\ v.sizeReferenceId = sizeReferenceId

NewSize(id, shirtId, e, finalPrice) ==
    [id |-> id, shirtId |-> shirtId, sizeReferenceId |-> e.sizeReferenceId,
     price |-> e.price, stock |-> e.stock, finalPrice |-> finalPrice]

RECURSIVE InsertMany(_, _, _, _)
\* ShirtSize.insertMany(docs) (ordered): the documents are inserted one by one
\* until one is refused by the unique index; [docs, next id, error].
InsertMany(sizeDocs, nextId, shirtId, entries) ==
    IF Len(entries) = 0 THEN [docs |-> sizeDocs, nextId |-> nextId, threw |-> FALSE]
    ELSE IF DuplicateKey(sizeDocs, shirtId, entries[1].sizeReferenceId)
         THEN [docs |-> sizeDocs, nextId |-> nextId, threw |-> TRUE]
         ELSE InsertMany(sizeDocs \cup {entries[1] @@ [id |-> nextId, shirtId |-> shirtId]},
                         nextId + 1, shirtId, Tail(entries))

RECURSIVE SelectInStock(_, _)
\* data.sizes.filter(stock > 0).map(...): finalPrice from the request's discount.
SelectInStock(sizes, discount) ==
    IF Len(sizes) = 0 THEN <<>>
    ELSE (IF sizes[1].stock > 0
          THEN <<[sizeReferenceId |-> sizes[1].sizeReferenceId, price |-> sizes[1].price,
                  stock |-> sizes[1].stock,
                  finalPrice |-> calculateFinalPrice(sizes[1].price, discount)]>>
          ELSE <<>>) \o SelectInStock(Tail(sizes), discount)

\* document.save() of a ShirtSize loaded earlier as `local`, after price and
\* stock were assigned: only the paths that differ from the loaded values are
\* written, finalPrice being set by the pre-save hook.
SaveModified(local, price, stock, finalPrice) ==
    local.price # price \/ local.stock # stock \/ local.finalPrice # finalPrice
SavedSize(stored, local, price, stock, finalPrice) ==
    [stored EXCEPT !.price = IF local.price # price THEN price ELSE @,
                   !.stock = IF local.stock # stock THEN stock ELSE @,
                   !.finalPrice = IF local.finalPrice # finalPrice THEN finalPrice ELSE @]

RECURSIVE SkipTo(_, _, _)
\* The index of the first entry at or after i that the loop of updateShirt
\* does not skip: stock <= 0 is skipped, and so is the size of currentSizeRefId.
SkipTo_NoStockRule(sizes, i, currentSizeRefId) ==
    IF i > Len(sizes) THEN i
    ELSE IF currentSizeRefId # "" /\ sizes[i].sizeReferenceId = currentSizeRefId
         THEN SkipTo(sizes, i + 1, currentSizeRefId)
         ELSE i
SkipTo(sizes, i, currentSizeRefId) ==
    IF i > Len(sizes) THEN i
    ELSE IF \/ sizes[i].stock <= 0
            \/ currentSizeRefId # "" /\ sizes[i].sizeReferenceId = currentSizeRefId
         THEN SkipTo(sizes, i + 1, currentSizeRefId)
         ELSE i

Defined(x, old) == IF x # Undefined THEN x ELSE old

(***************************************************************************)
(* createShirt.                                                            *)
(***************************************************************************)
\* The call, with the two findById checks of the reference data.
createShirt(p) ==
    /\ pc[p] = "idle"
    /\ opsStarted < MaxOps
    /\ nextShirtId + PendingShirtSaves <= MaxShirts
    /\ opsStarted' = opsStarted + 1
    /\ \E d \in CreateInputs :
         LET l == [IdleLoc EXCEPT !.op = "create", !.userId = d.userId, !.data = d]
         IN  IF d.shirtTypeId \notin ShirtTypeIds
             THEN Finish(p, l, Error("ShirtTypeNotFound"), "throw")
             ELSE IF d.sizeVariant.sizeReferenceId \notin SizeReferenceIds
                  THEN Finish(p, l, Error("SizeReferenceNotFound"), "throw")
                  ELSE Goto(p, l, "cr_shirt")
    /\ UNCHANGED <<storeVars, cache, committed, pureVars>>

NewShirt(id, userId, d) ==
    [id |-> id, userId |-> userId, name |-> d.name, shirtTypeId |-> d.shirtTypeId,
     discount |-> d.discount]

\* await shirt.save()
createShirt_saveShirt(p) ==
    /\ pc[p] = "cr_shirt"
    /\ shirts' = shirts \cup {NewShirt(nextShirtId, loc[p].userId, loc[p].data)}
    /\ nextShirtId' = nextShirtId + 1
    /\ Bump(TRUE)
    /\ Goto(p, [Wrote(loc[p], TRUE) EXCEPT !.shirtId = nextShirtId], "cr_size")
    /\ UNCHANGED <<shirtSizes, nextSizeId, cache, opsStarted, committed, pureVars>>

\* await shirtSize.save(), then on to the invalidation.
createShirt_saveSize(p) ==
    /\ pc[p] = "cr_size"
    /\ LET l == loc[p]
           e == l.data.sizeVariant
       IN  IF DuplicateKey(shirtSizes, l.shirtId, e.sizeReferenceId)
           THEN /\ Finish(p, Wrote(l, FALSE), Error("DuplicateKey"), "throw")
                /\ UNCHANGED <<shirtSizes, nextSizeId, storeVer>>
           ELSE /\ shirtSizes' = shirtSizes \cup
                      {NewSize(nextSizeId, l.shirtId, e,
                               PreSaveFinalPrice(e.price, l.shirtId, shirts))}
                /\ nextSizeId' = nextSizeId + 1
                /\ Bump(TRUE)
                /\ Goto(p, [Wrote(l, TRUE) EXCEPT !.created = <<nextSizeId>>],
                        AfterWrites([l EXCEPT !.created = <<nextSizeId>>]))
    /\ UNCHANGED <<shirts, nextShirtId, cache, opsStarted, committed, pureVars>>

(***************************************************************************)
(* batchCreateShirts.                                                      *)
(***************************************************************************)
\* The call, with the findById check of the shirt type.
batchCreateShirts(p) ==
    /\ pc[p] = "idle"
    /\ opsStarted < MaxOps
    /\ nextShirtId + PendingShirtSaves <= MaxShirts
    /\ opsStarted' = opsStarted + 1
    /\ \E d \in BatchInputs :
         LET l == [IdleLoc EXCEPT !.op = "batch", !.userId = d.userId, !.data = d]
         IN  IF d.shirtTypeId \notin ShirtTypeIds
             THEN Finish(p, l, Error("ShirtTypeNotFound"), "throw")
             ELSE Goto(p, l, "bc_shirt")
    /\ UNCHANGED <<storeVars, cache, committed, pureVars>>

\* await shirt.save(), then the check that every size reference exists.
batchCreateShirts_saveShirt(p) ==
    /\ pc[p] = "bc_shirt"
    /\ shirts' = shirts \cup {NewShirt(nextShirtId, loc[p].userId, loc[p].data)}
    /\ nextShirtId' = nextShirtId + 1
    /\ Bump(TRUE)
    /\ LET l == [Wrote(loc[p], TRUE) EXCEPT !.shirtId = nextShirtId]
       IN  IF \E i \in DOMAIN l.data.sizes :
                   l.data.sizes[i].sizeReferenceId \notin SizeReferenceIds
           THEN Finish(p, l, Error("SizeReferenceNotFound"), "throw")
           ELSE Goto(p, l, "bc_insert")
    /\ UNCHANGED <<shirtSizes, nextSizeId, cache, opsStarted, committed, pureVars>>

\* await ShirtSize.insertMany(shirtSizesToCreate)
batchCreateShirts_insertMany(p) ==
    /\ pc[p] = "bc_insert"
    /\ LET l == loc[p]
           r == InsertMany(shirtSizes, nextSizeId, l.shirtId,
                           SelectInStock(l.data.sizes, l.data.discount))
           l2 == [Wrote(l, r.docs # shirtSizes) EXCEPT
                     !.created = [i \in 1..(r.nextId - nextSizeId) |-> nextSizeId + i - 1]]
       IN  /\ shirtSizes' = r.docs
           /\ nextSizeId' = r.nextId
           /\ Bump(r.docs # shirtSizes)
           /\ IF r.threw
              THEN Finish(p, l2, Error("DuplicateKey"), "throw")
              ELSE Goto(p, l2, AfterWrites(l2))
    /\ UNCHANGED <<shirts, nextShirtId, cache, opsStarted, committed, pureVars>>

(***************************************************************************)
(* updateShirt.                                                            *)
(***************************************************************************)
\* updateShirtHandler: the body is parsed by updateShirtSchema (a ZodError is
\* answered with 400), then updateShirt is called, which starts with
\* Shirt.findOne({ _id: shirtId, userId }): null is returned at once when the
\* shirt does not exist or is not the caller's.
updateShirtHandler(p, bodies) ==
    /\ pc[p] = "idle"
    /\ opsStarted < MaxOps
    /\ opsStarted' = opsStarted + 1
    /\ \E shirtId \in 1..MaxShirts, userId \in Users, d \in bodies :
         LET l == [IdleLoc EXCEPT !.op = "update", !.userId = userId,
                                  !.shirtId = shirtId, !.data = d]
             found == FindOwnedShirt(shirts, shirtId, userId)
         IN  IF ~updateShirtSchema(d)
             THEN Finish(p, [l EXCEPT !.data = NoData], Error("ZodError"), "throw")
             ELSE IF found = {}
                  THEN Finish(p, l, [kind |-> "null"], "return")
                  ELSE Goto(p, [l EXCEPT !.doc = CHOOSE s \in found : TRUE], "up_shirt")
    /\ UNCHANGED <<storeVars, cache, committed, pureVars>>

updateShirt(p) == updateShirtHandler(p, UpdateInputs)

\* The fields of the request assigned to the loaded document.
AssignShirt(doc, d) ==
    [doc EXCEPT !.name = IF d.name # "" THEN d.name ELSE @,
                !.shirtTypeId = IF d.shirtTypeId # "" THEN d.shirtTypeId ELSE @,
                !.discount = IF d.discount # NoDiscount THEN d.discount ELSE @]

\* What shirt.save() writes: the paths that were modified, over the stored document.
SavedShirt(stored, doc, newDoc) ==
    [stored EXCEPT !.name = IF newDoc.name # doc.name THEN newDoc.name ELSE @,
                   !.shirtTypeId = IF newDoc.shirtTypeId # doc.shirtTypeId
                                   THEN newDoc.shirtTypeId ELSE @,
                   !.discount = IF newDoc.discount # doc.discount
                                THEN newDoc.discount ELSE @]

\* Where updateShirt goes after shirt.save().
AfterShirtSave(l) ==
    IF l.data.currentSizeVariant.present THEN "up_cur"
    ELSE IF Len(l.data.sizes) > 0 THEN "up_load"
    ELSE AfterWrites(l)

\* The shirt type check, the assignments and await shirt.save().
updateShirt_saveShirt(p) ==
    /\ pc[p] = "up_shirt"
    /\ LET l == loc[p]
           d == l.data
           newDoc == AssignShirt(l.doc, d)
           stored == {s \in shirts : s.id = l.shirtId}
       IN  IF d.shirtTypeId # "" /\ d.shirtTypeId \notin ShirtTypeIds
           THEN /\ Finish(p, l, Error("ShirtTypeNotFound"), "throw")
                /\ UNCHANGED <<shirts, storeVer>>
           ELSE IF newDoc = l.doc
                THEN \* nothing modified: save() sends nothing
                     /\ Goto(p, Wrote(l, FALSE), AfterShirtSave(l))
                     /\ UNCHANGED <<shirts, storeVer>>
                ELSE IF stored = {}
                     THEN \* the document was deleted meanwhile
                          /\ Finish(p, Wrote(l, FALSE), Error("DocumentNotFound"), "throw")
                          /\ UNCHANGED <<shirts, storeVer>>
                     ELSE LET cur == CHOOSE s \in stored : TRUE
                              new == SavedShirt(cur, l.doc, newDoc)
                          IN  /\ shirts' = (shirts \ {cur}) \cup {new}
                              /\ Bump(new # cur)
                              /\ Goto(p, [Wrote(l, new # cur) EXCEPT !.doc = newDoc],
                                      AfterShirtSave(l))
    /\ UNCHANGED <<shirtSizes, nextShirtId, nextSizeId, cache, opsStarted, committed,
                   pureVars>>

\* A plausible slip: the variants looked up by the name of the design, as
\* when every variant was a shirt document of its own.
FindShirtSizes_ByName(sizeDocs, shirtDocs, shirtId) ==
    {v \in sizeDocs : \E s, t \in shirtDocs :
                         s.id = shirtId /\ t.id = v.shirtId /\ t.name = s.name}

\* ShirtSize.find({ shirtId: shirt._id }) and ShirtSize.findOne({ shirtId:
\* shirt._id }): the variants of the shirt that was loaded for the caller.
FindShirtSizes(sizeDocs, shirtDocs, shirtId) ==
    {v \in sizeDocs : v.shirtId = shirtId}

\* Where updateShirt goes after the currentSizeVariant block.
AfterCurrent(l) ==
    IF Len(l.data.sizes) > 0 THEN "up_load" ELSE AfterWrites(l)

\* if (currentSizeVariant): ShirtSize.findOne({ shirtId }) gives the first
\* variant of the shirt in natural order; price and stock are assigned when
\* given and the variant is saved.
updateShirt_currentSizeVariant(p) ==
    /\ pc[p] = "up_cur"
    /\ LET l == loc[p]
           c == l.data.currentSizeVariant
           mine == SortById(FindShirtSizes(shirtSizes, shirts, l.shirtId))
       IN  IF Len(mine) = 0
           THEN /\ Goto(p, l, AfterCurrent(l))
                /\ UNCHANGED <<shirtSizes, storeVer>>
           ELSE LET cur == mine[1]
                    price == Defined(c.price, cur.price)
                    stock == Defined(c.stock, cur.stock)
                    new == SavedSize(cur, cur, price, stock,
                                     PreSaveFinalPrice(price, cur.shirtId, shirts))
                    l2 == [Wrote(l, new # cur) EXCEPT !.updated = Append(@, cur.id)]
                IN  /\ shirtSizes' = (shirtSizes \ {cur}) \cup {new}
                    /\ Bump(new # cur)
                    /\ Goto(p, l2, AfterCurrent(l2))
    /\ UNCHANGED <<shirts, nextShirtId, nextSizeId, cache, opsStarted, committed, pureVars>>

\* Where the loop over sizes goes once index i is reached.
LoopOrDone(l, i) ==
    IF i > Len(l.data.sizes) THEN AfterWrites(l) ELSE "up_loop"

\* if (sizes && sizes.length > 0): ShirtSize.find({ shirtId }) loads the
\* existing variants, existingShirtSizes[0] gives currentSizeRefId (the
\* SizeReference.find that follows reads reference data only).
updateShirt_loadSizes(p) ==
    /\ pc[p] = "up_load"
    /\ LET l == loc[p]
           existing == SortById(FindShirtSizes(shirtSizes, shirts, l.shirtId))
           current == IF Len(existing) > 0 THEN existing[1].sizeReferenceId ELSE ""
           i == SkipTo(l.data.sizes, 1, current)
           l2 == [l EXCEPT !.existing = existing, !.currentSizeRefId = current, !.i = i]
       IN  Goto(p, l2, LoopOrDone(l2, i))
    /\ UNCHANGED <<storeVars, cache, opsStarted, committed, pureVars>>

\* One iteration of the loop that reaches the store: the entry's size reference
\* is checked, then the existing variant is updated or a new one is created.
updateShirt_sizeEntry(p) ==
    /\ pc[p] = "up_loop"
    /\ LET l == loc[p]
           e == l.data.sizes[l.i]
           next == SkipTo(l.data.sizes, l.i + 1, l.currentSizeRefId)
           known == {j \in DOMAIN l.existing :
                        l.existing[j].sizeReferenceId = e.sizeReferenceId}
       IN  IF e.sizeReferenceId \notin SizeReferenceIds
           THEN /\ Finish(p, l, Error("SizeReferenceNotFound"), "throw")
                /\ UNCHANGED <<shirtSizes, nextSizeId, storeVer>>
           ELSE IF known # {}
                THEN \* existingSizeRefMap keeps the last variant of a size
                     LET local == l.existing[CHOOSE j \in known : \A k \in known : k <= j]
                         finalPrice == PreSaveFinalPrice(e.price, local.shirtId, shirts)
                         stored == {v \in shirtSizes : v.id = local.id}
                     IN  IF ~SaveModified(local, e.price, e.stock, finalPrice)
                         THEN /\ Goto(p, [Wrote(l, FALSE) EXCEPT
                                            !.updated = Append(@, local.id), !.i = next],
                                      LoopOrDone([l EXCEPT !.updated = Append(@, local.id)],
                                                 next))
                              /\ UNCHANGED <<shirtSizes, nextSizeId, storeVer>>
                         ELSE IF stored = {}
                              THEN /\ Finish(p, Wrote(l, FALSE),
                                             Error("DocumentNotFound"), "throw")
                                   /\ UNCHANGED <<shirtSizes, nextSizeId, storeVer>>
                              ELSE LET cur == CHOOSE v \in stored : TRUE
                                       new == SavedSize(cur, local, e.price, e.stock,
                                                        finalPrice)
                                       l2 == [Wrote(l, new # cur) EXCEPT
                                                !.updated = Append(@, local.id),
                                                !.i = next]
                                   IN  /\ shirtSizes' = (shirtSizes \ {cur}) \cup {new}
                                       /\ Bump(new # cur)
                                       /\ Goto(p, l2, LoopOrDone(l2, next))
                                       /\ UNCHANGED nextSizeId
                ELSE IF DuplicateKey(shirtSizes, l.shirtId, e.sizeReferenceId)
                     THEN /\ Finish(p, Wrote(l, FALSE), Error("DuplicateKey"), "throw")
                          /\ UNCHANGED <<shirtSizes, nextSizeId, storeVer>>
                     ELSE LET l2 == [Wrote(l, TRUE) EXCEPT
                                       !.created = Append(@, nextSizeId), !.i = next]
                          IN  /\ shirtSizes' = shirtSizes \cup
                                    {NewSize(nextSizeId, l.shirtId, e,
                                             PreSaveFinalPrice(e.price, l.shirtId, shirts))}
                              /\ nextSizeId' = nextSizeId + 1
                              /\ Bump(TRUE)
                              /\ Goto(p, l2, LoopOrDone(l2, next))
    /\ UNCHANGED <<shirts, nextShirtId, cache, opsStarted, committed, pureVars>>

(***************************************************************************)
(* deleteShirt.                                                            *)
(***************************************************************************)
\* The call and the ownership check Shirt.findOne({ _id: shirtId, userId }).
deleteShirt(p) ==
    /\ pc[p] = "idle"
    /\ opsStarted < MaxOps
    /\ opsStarted' = opsStarted + 1
    /\ \E shirtId \in 1..MaxShirts, userId \in Users :
         LET l == [IdleLoc EXCEPT !.op = "delete", !.userId = userId, !.shirtId = shirtId]
         IN  IF FindOwnedShirt(shirts, shirtId, userId) = {}
             THEN Finish(p, l, [kind |-> "false"], "return")
             ELSE Goto(p, l, "de_many")
    /\ UNCHANGED <<storeVars, cache, committed, pureVars>>

\* await ShirtSize.deleteMany({ shirtId })
deleteShirt_deleteMany(p) ==
    /\ pc[p] = "de_many"
    /\ LET l == loc[p]
           gone == {v \in shirtSizes : v.shirtId = l.shirtId}
       IN  /\ shirtSizes' = shirtSizes \ gone
           /\ Bump(gone # {})
           /\ Goto(p, [Wrote(l, gone # {}) EXCEPT !.removed = Cardinality(gone)], "de_one")
    /\ UNCHANGED <<shirts, nextShirtId, nextSizeId, cache, opsStarted, committed, pureVars>>

\* await Shirt.deleteOne({ _id: shirtId, userId }); false is returned when
\* nothing was deleted.
deleteShirt_deleteOne(p) ==
    /\ pc[p] = "de_one"
    /\ LET l == loc[p]
           gone == FindOwnedShirt(shirts, l.shirtId, l.userId)
           l2 == [Wrote(l, gone # {}) EXCEPT !.removed = @ + Cardinality(gone)]
       IN  /\ shirts' = shirts \ gone
           /\ Bump(gone # {})
           /\ IF gone # {}
              THEN Goto(p, l2, AfterWrites(l2))
              ELSE Finish(p, l2, [kind |-> "false"], "return")
    /\ UNCHANGED <<shirtSizes, nextShirtId, nextSizeId, cache, opsStarted, committed,
                   pureVars>>

(***************************************************************************)
(* invalidateShirtListCache and the audit job, the tail of every write.    *)
(***************************************************************************)
\* redis.keys('shirts:list:*'); a failure (or no client) ends the
\* invalidation, and so does an empty list of keys.
invalidateShirtListCache_keys(p) ==
    /\ pc[p] = "inv_keys"
    /\ \E ok \in BOOLEAN :
         LET l == [loc[p] EXCEPT !.trace = Append(@, "invalidate"),
                                 !.cacheFailed = @ \/ ~ok]
         IN  IF ok /\ cache # {}
             THEN Goto(p, [l EXCEPT !.keys = CacheKeys(cache)], "inv_del")
             ELSE Goto(p, l, "audit")
    /\ UNCHANGED <<storeVars, cache, opsStarted, committed, pureVars>>

\* redis.del(keys)
invalidateShirtListCache_del(p) ==
    /\ pc[p] = "inv_del"
    /\ \E ok \in BOOLEAN :
         /\ cache' = IF ok THEN {e \in cache : e.key \notin loc[p].keys} ELSE cache
         /\ Goto(p, [loc[p] EXCEPT !.keys = {}, !.cacheFailed = @ \/ ~ok], "audit")
    /\ UNCHANGED <<storeVars, opsStarted, committed, pureVars>>

\* What a write returns to its caller.
WriteResult(l) ==
    CASE l.op = "delete" -> [kind |-> "true"]
      [] l.op = "update" -> [kind |-> "updated", updatedShirtSizes |-> l.updated,
                             createdShirtSizes |-> l.created,
                             updatedCount |-> Len(l.updated),
                             createdCount |-> Len(l.created)]
      [] OTHER -> [kind |-> "created", shirtId |-> l.shirtId, shirtSizes |-> l.created]

\* getQueue() and queue.add('log-event', ...) inside try/catch, then the
\* return: there is no queue, or the job is added, or add throws and the
\* error is logged.
auditAndReturn(p) ==
    /\ pc[p] = "audit"
    /\ \E q \in {"none", "added", "failed"} :
         LET l == [loc[p] EXCEPT
                     !.trace = IF q = "none" THEN @ ELSE Append(@, "audit"),
                     !.queueFailed = (q = "failed")]
         IN  Finish(p, l, WriteResult(l), "return")
    /\ committed' = Max(committed, loc[p].w0)
    /\ UNCHANGED <<storeVars, cache, opsStarted, pureVars>>

(***************************************************************************)
(* listShirts.                                                             *)
(***************************************************************************)
ListResult(filters, value, fromCache, asOf, stale) ==
    [kind |-> "list", filters |-> filters, value |-> value, fromCache |-> fromCache,
     asOf |-> asOf, stale |-> stale]

\* The call and getCachedShirtList(filters): a hit is returned as it is.
listShirts(p) ==
    /\ pc[p] = "idle"
    /\ opsStarted < MaxOps
    /\ opsStarted' = opsStarted + 1
    /\ \E f \in ListInputs, ok \in BOOLEAN :
         LET l == [IdleLoc EXCEPT !.op = "list", !.data = f, !.cacheFailed = ~ok]
             cached == getCachedShirtList(cache, f, ok)
         IN  IF cached.threw
             THEN Finish(p, l, Error("Upstream"), "throw")
             ELSE IF cached.entries # {}
                  THEN LET e == CHOOSE x \in cached.entries : TRUE
                       IN  Finish(p, l, ListResult(f, e.value, TRUE, e.asOf,
                                                   e.asOf < committed), "return")
                  ELSE Goto(p, l, "li_query")
    /\ UNCHANGED <<storeVars, cache, committed, pureVars>>

\* The filters are resolved and the aggregations run; a grouped result is
\* returned at once, an ungrouped one goes on to setCachedShirtList.
listShirts_query(p) ==
    /\ pc[p] = "li_query"
    /\ \E tie \in TieOrders :
         LET l == loc[p]
             f == l.data
             r == ListResult(f, QueryStore(f, shirts, shirtSizes, tie), FALSE, storeVer,
                             FALSE)
         IN  IF ResolvedSize(f) = "ERR" \/ ResolvedType(f) = "ERR"
             THEN Finish(p, l, Error("InvalidFilter"), "throw")
             ELSE IF CachesResult(f)
                  THEN Goto(p, [l EXCEPT !.result = r], "li_set")
                  ELSE Finish(p, l, r, "return")
    /\ UNCHANGED <<storeVars, cache, opsStarted, committed, pureVars>>

\* await setCachedShirtList(filters, JSON.stringify(result)); return result
listShirts_setCache(p) ==
    /\ pc[p] = "li_set"
    /\ \E ok \in BOOLEAN :
         LET l == [loc[p] EXCEPT !.cacheFailed = @ \/ ~ok]
         IN  /\ cache' = setCachedShirtList(cache, l.data, l.result.value,
                                            l.result.asOf, ok)
             /\ Finish(p, l, l.result, "return")
    /\ UNCHANGED <<storeVars, opsStarted, committed, pureVars>>

(***************************************************************************)
(* The service.                                                            *)
(***************************************************************************)
Next ==
    \E p \in Procs :
        \/ createShirt(p)
        \/ createShirt_saveShirt(p)
        \/ createShirt_saveSize(p)
        \/ batchCreateShirts(p)
        \/ batchCreateShirts_saveShirt(p)
        \/ batchCreateShirts_insertMany(p)
        \/ updateShirt(p)
        \/ updateShirt_saveShirt(p)
        \/ updateShirt_currentSizeVariant(p)
        \/ updateShirt_loadSizes(p)
        \/ updateShirt_sizeEntry(p)
        \/ deleteShirt(p)
        \/ deleteShirt_deleteMany(p)
        \/ deleteShirt_deleteOne(p)
        \/ invalidateShirtListCache_keys(p)
        \/ invalidateShirtListCache_del(p)
        \/ auditAndReturn(p)
        \/ listShirts(p)
        \/ listShirts_query(p)
        \/ listShirts_setCache(p)

Spec == Init /\ [][Next]_vars

(***************************************************************************)
(* calculateFinalPrice on its own: one evaluation, on a price and a        *)
(* discount the validators let through (price 0..10000 with any number of  *)
(* decimals, discount value >= 0).                                         *)
(***************************************************************************)
PriceSamples ==
    {0, 4, 5, 10, 1005, 9990, 10999, 333330, 2500000, 3000000, 9999995, 10000000}
DiscountSamples ==
    {NoDiscount, Amount(0), Amount(4), Amount(500000), Amount(10000000),
     Amount(20000000), Percentage(0), Percentage(10), Percentage(33),
     Percentage(100), Percentage(150)}

InitPrice ==
    /\ InitStore
    /\ cache = {}
    /\ keyReq = NoKeyReq
    /\ session = NoSession
    /\ redis = NoRedis
    /\ calc \in {[price |-> pr, discount |-> d, finalPrice |-> Undefined] :
                    pr \in PriceSamples, d \in DiscountSamples}

calculateFinalPrice_call ==
    /\ calc.finalPrice = Undefined
    /\ calc' = [calc EXCEPT !.finalPrice = calculateFinalPrice(calc.price, calc.discount)]
    /\ UNCHANGED <<storeVars, cache, pc, loc, opsStarted, storeVer, committed, keyReq,
                   session, redis>>

NextPrice == calculateFinalPrice_call

SpecPrice == InitPrice /\ [][NextPrice]_vars

(***************************************************************************)
(* generateCacheKey on its own: two requests, keyed in either order.       *)
(***************************************************************************)
KeyFilterSamples ==
    {[Filters(size, type, minPrice, maxPrice, page, 10, groupBy)
        EXCEPT !.sizeReferenceId = sizeReferenceId] :
        size \in {"", "L", "L:type:Formal"}, sizeReferenceId \in {"", "oidM"},
        type \in {"", "Formal"},
        minPrice \in {Undefined, 0, 1000000}, maxPrice \in {Undefined, 1500},
        page \in {1, 2}, groupBy \in {"", "design"}}

InitKey ==
    /\ InitStore
    /\ cache = {}
    /\ calc = NoCalc
    /\ session = NoSession
    /\ redis = NoRedis
    /\ keyReq \in [{1, 2} -> {[filters |-> f, parts |-> <<>>, key |-> ""] :
                                  f \in KeyFilterSamples}]

generateCacheKey_call(r) ==
    /\ keyReq[r].key = ""
    /\ keyReq' = [keyReq EXCEPT ![r].parts = CacheKeyParts(keyReq[r].filters),
                                ![r].key = generateCacheKey(keyReq[r].filters)]
    /\ UNCHANGED <<storeVars, cache, pc, loc, opsStarted, storeVer, committed, calc,
                   session, redis>>

NextKey == \E r \in {1, 2} : generateCacheKey_call(r)

SpecKey == InitKey /\ [][NextKey]_vars

(***************************************************************************)
(* Properties of calculateFinalPrice (SpecPrice).                          *)
(***************************************************************************)
\* The exact value before rounding, as the fraction num / den of a cent.
ExactNum(price, discount) ==
    CASE discount.type = "amount" -> Max(0, price - discount.value)
      [] discount.type = "percentage" -> Max(0, price * (100 - discount.value))
      [] OTHER -> price
ExactDen(discount) == IF discount.type = "percentage" THEN 1000 ELSE 10

\* r (in thousandths) is a whole number of cents nearest to num / den cents.
IsRound2(r, num, den) ==
    /\ r % 10 = 0
    /\ 2 * (r \div 10) * den - 2 * num <= den
    /\ 2 * num - 2 * (r \div 10) * den <= den

DimOrder == <<"size", "type", "minPrice", "maxPrice", "page", "limit">>

\* The value a request carries in a dimension, "" when it carries none.
DimValue(filters, dim) ==
    CASE dim = "size" -> IF filters.sizeReferenceId # "" THEN filters.sizeReferenceId
                         ELSE filters.size
      [] dim = "type" -> IF filters.shirtTypeId # "" THEN filters.shirtTypeId
                         ELSE filters.type
      [] dim = "minPrice" -> IF filters.minPrice = Undefined THEN ""
                             ELSE PriceStr(filters.minPrice)
      [] dim = "maxPrice" -> IF filters.maxPrice = Undefined THEN ""
                             ELSE PriceStr(filters.maxPrice)
      [] dim = "page" -> ToString(filters.page)
      [] OTHER -> ToString(filters.limit)

PresentDims(filters) ==
    LET present(dim) == DimValue(filters, dim) # ""
    IN  SelectSeq(DimOrder, present)

\* C4: the key is a function of the filters alone; its segments are the
\* prefix and then the dimensions present in the request, in the order size,
\* type, minPrice, maxPrice, page, limit, each with the request's value; an
\* absent filter has no segment.
C4_CacheKeyDeterministic ==
    /\ \A r \in {1, 2} :
          keyReq[r].key # "" =>
              LET dims == PresentDims(keyReq[r].filters)
                  parts == keyReq[r].parts
              IN  /\ Len(parts) = Len(dims) + 1
                  /\ parts[1] = <<"shirts", "list">>
                  /\ \A i \in 1..Len(dims) :
                        parts[i + 1] = <<dims[i], DimValue(keyReq[r].filters, dims[i])>>
                  /\ keyReq[r].key = JoinParts(parts)
    /\ (keyReq[1].key # "" /\ keyReq[2].key # ""
         /\ keyReq[1].filters = keyReq[2].filters) => keyReq[1].key = keyReq[2].key
    /\ \A r \in {1, 2} :
          (/\ keyReq[r].key # ""
           /\ keyReq[r].filters =
                 Filters("L", "Formal", 1000000, 1500, 1, 10, "")) =>
              keyReq[r].key =
                "shirts:list:size:L:type:Formal:minPrice:1000:maxPrice:1.5:page:1:limit:10"

\* Both requests have been keyed: one carries only a maxPrice, the other the
\* same filters as the first.
C4_KeyedTwice ==
    /\ keyReq[1].key = "shirts:list:maxPrice:1.5:page:2:limit:10"
    /\ keyReq[2].key # ""
    /\ keyReq[2].filters = keyReq[1].filters

(***************************************************************************)
(* Properties of the service (Spec).                                       *)
(***************************************************************************)
Returned(p, op) == pc[p] = "idle" /\ loc[p].op = op /\ loc[p].result # NoData
Writes == {"create", "batch", "update", "delete"}
Succeeded(p) ==
    /\ pc[p] = "idle"
    /\ loc[p].op \in Writes
    /\ loc[p].result # NoData
    /\ loc[p].result.kind \in {"created", "updated", "true"}

\* C1: a listing that began after a successful write had returned is never
\* answered with a cache entry computed before that write changed the store.
C1_NoStaleHit ==
    \A p \in Procs :
        (Returned(p, "list") /\ loc[p].result.kind = "list"
         /\ loc[p].result.fromCache) => ~loc[p].result.stale

\* The events of a successful write: store writes, then the one invalidation,
\* then possibly the audit job, then the return.
WellOrdered(t) ==
    \E k \in 2..Len(t) :
        /\ t[k] = "invalidate"
        /\ \A i \in 1..(k - 1) : t[i] = "store"
        /\ SubSeq(t, k + 1, Len(t)) \in {<<"return">>, <<"audit", "return">>}

\* C2: a write that succeeds performs its store writes, then exactly one
\* cache invalidation attempt whatever the numbers of records updated and
\* created, then at most one audit enqueue, and only then returns.
C2_WriteOrder ==
    \A p \in Procs :
        /\ Succeeded(p) => WellOrdered(loc[p].trace)
        /\ pc[p] = "audit" =>
              Cardinality({i \in 1..Len(loc[p].trace) : loc[p].trace[i] = "invalidate"}) = 1

\* An update that changed the discount only (no variant updated or created)
\* has returned after its invalidation and its audit job.
C2_UpdateWithoutVariants ==
    \E p \in Procs :
        /\ Succeeded(p)
        /\ loc[p].op = "update"
        /\ loc[p].result.updatedCount = 0
        /\ loc[p].result.createdCount = 0
        /\ loc[p].trace = <<"store", "invalidate", "audit", "return">>

\* C3: no call fails because the cache or the queue failed: a listing whose
\* cache read failed returns what the store query gives, and the cache and
\* audit steps of a write change nothing in the store and always lead on to
\* the write's normal return.
C3_FailuresAbsorbed ==
    /\ [](\A p \in Procs :
            /\ (pc[p] = "idle" /\ loc[p].result # NoData /\ loc[p].result.kind = "error")
                 => loc[p].result.error # "Upstream"
            /\ (Returned(p, "list") /\ loc[p].result.kind = "list"
                 /\ loc[p].cacheFailed /\ loc[p].result.asOf = storeVer)
                 => /\ ~loc[p].result.fromCache
                    /\ \E tie \in TieOrders :
                         loc[p].result.value =
                           QueryStore(loc[p].result.filters, shirts, shirtSizes, tie))
    /\ [][\A p \in Procs :
            (pc[p] \in {"inv_keys", "inv_del", "audit"} /\ pc'[p] # pc[p]) =>
                /\ UNCHANGED <<shirts, shirtSizes>>
                /\ pc'[p] \in {"inv_del", "audit", "idle"}
                /\ pc'[p] = "idle" => Succeeded(p)']_vars

\* An update has returned its counts although its invalidation and its audit
\* job both failed, and a listing has returned a store result although its
\* cache read failed.
C3_ReturnedDespiteFailures ==
    \E p, q \in Procs :
        /\ Succeeded(p) /\ loc[p].op = "update"
        /\ loc[p].cacheFailed /\ loc[p].queueFailed
        /\ Returned(q, "list") /\ loc[q].result.kind = "list"
        /\ loc[q].cacheFailed /\ ~loc[q].result.fromCache

\* C5: no cache entry holds a grouped result.
C5_GroupedNeverCached == \A e \in cache : ~e.value.grouped

\* A grouped listing has been computed from the store and returned, and the
\* cache is still empty.
C5_GroupedReturned ==
    \E p \in Procs :
        /\ Returned(p, "list") /\ loc[p].result.kind = "list"
        /\ loc[p].result.value.grouped
        /\ ~loc[p].result.fromCache
        /\ cache = {}

\* The finalPrice a variant must carry under its design's current discount.
DerivedFinalPrice(v, s) ==
    IF s.discount.type = "none" THEN v.price
    ELSE CHOOSE r \in {10 * k : k \in 0..(v.price \div 10 + 1)} :
             IsRound2(r, ExactNum(v.price, s.discount), ExactDen(s.discount))
             /\ ~IsRound2(r + 10, ExactNum(v.price, s.discount), ExactDen(s.discount))

\* C6: whenever no call is in progress, every stored variant carries the
\* finalPrice derived from its price and its design's current discount.
C6_FinalPriceDerived ==
    (\A p \in Procs : pc[p] = "idle") =>
        \A v \in shirtSizes : \A s \in shirts :
            s.id = v.shirtId => v.finalPrice = DerivedFinalPrice(v, s)

\* C8: no two stored variants share a (design, size) pair.
C8_UniqueDesignSize ==
    \A v, w \in shirtSizes :
        (v.shirtId = w.shirtId /\ v.sizeReferenceId = w.sizeReferenceId) => v.id = w.id

\* Two updates of the same design both added size L: one created the variant,
\* the other failed with the duplicate-key conflict.
C8_ConflictOnSecondCreate ==
    \E p, q \in Procs :
        /\ Succeeded(p) /\ loc[p].op = "update" /\ loc[p].result.createdCount = 1
        /\ \E v \in shirtSizes : /\ v.id = loc[p].result.createdShirtSizes[1]
                                  /\ v.sizeReferenceId = "oidL"
        /\ Returned(q, "update") /\ loc[q].result = Error("DuplicateKey")
        /\ loc[q].shirtId = loc[p].shirtId
        /\ Cardinality({v \in shirtSizes : v.shirtId = loc[p].shirtId
                                            /\ v.sizeReferenceId = "oidL"}) = 1

\* The call p makes in this step, if it makes one.
Calls(p, op) == pc[p] = "idle" /\ opsStarted' # opsStarted /\ loc'[p].op = op
                /\ (pc'[p] # "idle" \/ loc'[p] # loc[p])
NotOwner(p) ==
    \A s \in shirts : ~(s.id = loc'[p].shirtId /\ s.userId = loc'[p].userId)

\* C9: an update or a delete by a user who does not own the design, or of a
\* design that does not exist, returns null (update) or false (delete) at
\* once and leaves the shirts, the variants and the cache as they were.
C9_NonOwnerNoEffect ==
    [][\A p \in Procs :
          /\ (Calls(p, "update") /\ NotOwner(p)) =>
                /\ pc'[p] = "idle"
                /\ loc'[p].result = [kind |-> "null"]
                /\ UNCHANGED <<shirts, shirtSizes, cache>>
          /\ (Calls(p, "delete") /\ NotOwner(p)) =>
                /\ pc'[p] = "idle"
                /\ loc'[p].result = [kind |-> "false"]
                /\ UNCHANGED <<shirts, shirtSizes, cache>>]_vars

\* Seller u2 has asked to update and to delete the design of seller u1, which
\* is still in the store with its variant and its cached listing.
C9_NonOwnerRefused ==
    \E p, q \in Procs :
        /\ Returned(p, "update") /\ loc[p].result = [kind |-> "null"]
        /\ Returned(q, "delete") /\ loc[q].result = [kind |-> "false"]
        /\ loc[p].userId = "u2" /\ loc[q].userId = "u2"
        /\ loc[p].shirtId = 1 /\ loc[q].shirtId = 1
        /\ SeedShirt \in shirts /\ SeedSize \in shirtSizes /\ SeedEntry \in cache

\* C10: when a delete by the owner returns true, the design and all its
\* variants are gone and the invalidation has been made; when it returns
\* false, the call has removed no record.
C10_DeleteAllOrNothing ==
    [][\A p \in Procs :
          (pc[p] # "idle" /\ pc'[p] = "idle" /\ loc'[p].op = "delete") =>
              /\ loc'[p].result.kind = "true" =>
                    /\ \A s \in shirts' : s.id # loc'[p].shirtId
                    /\ \A v \in shirtSizes' : v.shirtId # loc'[p].shirtId
                    /\ \E i \in 1..Len(loc'[p].trace) : loc'[p].trace[i] = "invalidate"
              /\ loc'[p].result.kind = "false" => loc'[p].removed = 0]_vars

(***************************************************************************)
(* listShirts on its own: one client pages through a listing of a store    *)
(* that does not change, page 1 first, then every further page that page 1 *)
(* announced.                                                              *)
(***************************************************************************)
\* A stored ShirtSize of a shirt with the given discount.
StoredSize(id, shirtId, sizeReferenceId, price, stock, discount) ==
    [id |-> id, shirtId |-> shirtId, sizeReferenceId |-> sizeReferenceId,
     price |-> price, stock |-> stock,
     finalPrice |-> calculateFinalPrice(price, discount)]
StoredShirt(id, userId, name, shirtTypeId, discount) ==
    [id |-> id, userId |-> userId, name |-> name, shirtTypeId |-> shirtTypeId,
     discount |-> discount]

\* Stores the service can have built: a design whose first variant was set
\* to stock 0 (XL:0, M:30, L:25); two designs of the same name by two
\* sellers; two designs of different names, one discounted; a design whose
\* variant of shirt 1 outlived shirt 1; the empty store.
StoreOneDesign ==
    [shirts |-> {SeedShirt},
     shirtSizes |-> {StoredSize(1, 1, "oidXL", 2500000, 0, NoDiscount),
                     StoredSize(2, 1, "oidM", 2500000, 30, NoDiscount),
                     StoredSize(3, 1, "oidL", 2600000, 25, NoDiscount)}]
StoreSameName ==
    [shirts |-> {SeedShirt,
                 StoredShirt(2, "u2", "Alpha", "oidFormal", Percentage(10))},
     shirtSizes |-> {StoredSize(1, 1, "oidM", 2500000, 5, NoDiscount),
                     StoredSize(2, 2, "oidL", 2500000, 2, Percentage(10)),
                     StoredSize(3, 1, "oidL", 3000000, 0, NoDiscount),
                     StoredSize(4, 2, "oidXXL", 2000000, 1, Percentage(10))}]
StoreSamples ==
    { StoreOneDesign, StoreSameName,
      [shirts |-> {SeedShirt,
                   StoredShirt(2, "u2", "Beta", "oidFormal", Amount(500000))},
       shirtSizes |-> {StoredSize(1, 1, "oidM", 2500000, 5, NoDiscount),
                       StoredSize(2, 2, "oidL", 3000000, 0, Amount(500000)),
                       StoredSize(3, 2, "oidXL", 3000000, 3, Amount(500000))}],
      [shirts |-> {StoredShirt(2, "u2", "Beta", "oidFormal", NoDiscount)},
       shirtSizes |-> {StoredSize(1, 1, "oidM", 2500000, 5, NoDiscount),
                       StoredSize(2, 2, "oidL", 3000000, 2, NoDiscount)}],
      [shirts |-> {}, shirtSizes |-> {}] }

\* The filters of the client, page aside.
SessionFilterSamples ==
    {Filters(size, type, Undefined, maxPrice, 1, limit, groupBy) :
        size \in {"", "L", "m"}, type \in {"", "Formal"},
        maxPrice \in {Undefined, 2500000}, limit \in {1, 2},
        groupBy \in {"", "design"}}

\* The cache after an earlier ungrouped listShirts call for page 1 of the
\* same size, type, price range and limit.
WarmCache(filters, store) ==
    LET f == [filters EXCEPT !.groupBy = ""]
    IN  {[key |-> generateCacheKey(f),
          value |-> QueryStore(f, store.shirts, store.shirtSizes,
                               [i \in 1..MaxShirts |-> i]),
          asOf |-> 0]}

InitList ==
    /\ \E store \in StoreSamples, f \in SessionFilterSamples :
         /\ shirts = store.shirts
         /\ shirtSizes = store.shirtSizes
         /\ session = [filters |-> f, results |-> <<>>]
         /\ redis = NoRedis
         /\ cache \in {{}, WarmCache(f, store)}
    /\ nextShirtId = 3
    /\ nextSizeId = 5
    /\ pc = [p \in Procs |-> "idle"]
    /\ loc = [p \in Procs |-> IdleLoc]
    /\ opsStarted = 0
    /\ storeVer = 0
    /\ committed = 0
    /\ calc = NoCalc
    /\ keyReq = NoKeyReq

\* The pages the client asks for: page 1, then up to the totalPages of page 1.
PagesWanted ==
    IF Len(session.results) = 0 THEN 1 ELSE Max(1, session.results[1].totalPages)

\* One whole listShirts call of the client, for its next page: the cached
\* value if getCachedShirtList gives one, else the store query, cached by
\* setCachedShirtList when the listing is ungrouped.
listShirts_page ==
    /\ Len(session.results) < PagesWanted
    /\ \E okGet, okSet \in BOOLEAN, tie \in TieOrders :
         LET f == [session.filters EXCEPT !.page = Len(session.results) + 1]
             cached == getCachedShirtList(cache, f, okGet)
             r == QueryStore(f, shirts, shirtSizes, tie)
         IN  IF cached.entries # {}
             THEN /\ session' = [session EXCEPT !.results =
                                   Append(@, (CHOOSE e \in cached.entries : TRUE).value)]
                  /\ UNCHANGED cache
             ELSE /\ session' = [session EXCEPT !.results = Append(@, r)]
                  /\ cache' = IF CachesResult(f)
                              THEN setCachedShirtList(cache, f, r, storeVer, okSet)
                              ELSE cache
    /\ UNCHANGED <<storeVars, pc, loc, opsStarted, storeVer, committed, calc, keyReq,
                   redis>>

NextList == listShirts_page

SpecList == InitList /\ [][NextList]_vars

(***************************************************************************)
(* updateShirt on its own: two request handlers update the designs of a    *)
(* populated store whose listing is cached, with the bodies that exercise  *)
(* the reconciliation of sizes.                                            *)
(***************************************************************************)
InitUpdate ==
    /\ \E store \in {StoreOneDesign, StoreSameName} :
         /\ shirts = store.shirts
         /\ shirtSizes = store.shirtSizes
         /\ cache = WarmCache(SeedFilters, store)
    /\ nextShirtId = 3
    /\ nextSizeId = 5
    /\ pc = [p \in Procs |-> "idle"]
    /\ loc = [p \in Procs |-> IdleLoc]
    /\ opsStarted = 0
    /\ storeVer = 0
    /\ committed = 0
    /\ calc = NoCalc
    /\ keyReq = NoKeyReq
    /\ session = NoSession
    /\ redis = NoRedis

updateShirt_reconcile(p) == updateShirtHandler(p, ReconcileInputs)

NextUpdate ==
    \E p \in Procs :
        \/ updateShirt_reconcile(p)
        \/ updateShirt_saveShirt(p)
        \/ updateShirt_currentSizeVariant(p)
        \/ updateShirt_loadSizes(p)
        \/ updateShirt_sizeEntry(p)
        \/ invalidateShirtListCache_keys(p)
        \/ invalidateShirtListCache_del(p)
        \/ auditAndReturn(p)

SpecUpdate == InitUpdate /\ [][NextUpdate]_vars

(***************************************************************************)
(* Properties of listShirts (SpecList).                                    *)
(***************************************************************************)
SessionDone == Len(session.results) > 0 /\ Len(session.results) = PagesWanted

RECURSIVE SumItems(_)
SumItems(results) ==
    IF Len(results) = 0 THEN 0 ELSE Len(results[1].shirts) + SumItems(Tail(results))

\* The variants of the store that pass the filters of the client.
Matching(filters) ==
    {v \in shirtSizes :
        /\ \E s \in shirts :
              /\ s.id = v.shirtId
              /\ (filters.type = "" \/ ShirtTypeById(s.shirtTypeId).name = filters.type)
        /\ (filters.size = ""
             \/ SizeRefById(v.sizeReferenceId).name = toUpperCase(filters.size))
        /\ (filters.maxPrice = Undefined \/ v.finalPrice <= filters.maxPrice)}

\* C11: once the client has every page, the pages add up to the total of
\* page 1, every page reports totalPages = ceil(total / limit), no item is on
\* two pages, and a grouped listing counts designs: its total is the number
\* of designs with a matching variant.
C11_PagesPartition ==
    SessionDone =>
        LET rs == session.results
            f == session.filters
        IN  /\ SumItems(rs) = rs[1].total
            /\ \A i \in 1..Len(rs) : rs[i].totalPages = CeilDiv(rs[i].total, f.limit)
            /\ \A i, j \in 1..Len(rs) : \A a \in 1..Len(rs[i].shirts) :
                  \A b \in 1..Len(rs[j].shirts) :
                      rs[i].shirts[a]._id = rs[j].shirts[b]._id => (i = j /\ a = b)
            /\ f.groupBy = "design" =>
                  rs[1].total = Cardinality({v.shirtId : v \in Matching(f)})
            /\ f.groupBy # "design" => rs[1].total = Cardinality(Matching(f))

\* The groups the client has been given by grouped listings.
GroupsReturned ==
    UNION {Range(r.shirts) : r \in {x \in Range(session.results) : x.grouped}}

RECURSIVE SumOfStock(_)
SumOfStock(S) ==
    IF S = {} THEN 0
    ELSE LET v == CHOOSE x \in S : TRUE IN v.stock + SumOfStock(S \ {v})

VariantsOf(shirtId) == {v \in shirtSizes : v.shirtId = shirtId}

\* C12: every group of a grouped listing shows its whole design: totalStock
\* is the sum of the stock of the design's variants, availableSizes holds
\* exactly the sizes of its variants in stock, and variants holds every
\* variant of the design, those with stock 0 included.
C12_GroupShowsWholeDesign ==
    \A g \in GroupsReturned :
        /\ g.totalStock = SumOfStock(VariantsOf(g._id))
        /\ Range(g.availableSizes) =
             {SizeRefById(v.sizeReferenceId).name : v \in {x \in VariantsOf(g._id) : x.stock > 0}}
        /\ {v._id : v \in Range(g.variants)} = {v.id : v \in VariantsOf(g._id)}

\* The place of a size in the fixed order M < L < XL < XXL.
SizeRank(name) ==
    CASE name = "M" -> 1 [] name = "L" -> 2 [] name = "XL" -> 3 [] OTHER -> 4

\* C13: in every group of a grouped listing, variants and availableSizes are
\* in the order M, L, XL, XXL.
C13_SizeOrder ==
    \A g \in GroupsReturned :
        /\ \A i, j \in 1..Len(g.variants) :
              i < j => SizeRank(g.variants[i].sizeName) < SizeRank(g.variants[j].sizeName)
        /\ \A i, j \in 1..Len(g.availableSizes) :
              i < j => SizeRank(g.availableSizes[i]) < SizeRank(g.availableSizes[j])

\* C14: a listing asked for in grouped mode with a size filter returns design
\* groups, and a design has a group exactly when one of its variants has that
\* size (and passes the other filters), whatever the stock of that variant.
C14_GroupedSizeFilter ==
    (session.filters.groupBy = "design" /\ session.filters.size # "") =>
        \A r \in Range(session.results) :
            LET designs == {v.shirtId : v \in Matching(session.filters)}
            IN  /\ r.grouped
                /\ \A g \in Range(r.shirts) : g._id \in designs
                /\ r.total = Cardinality(designs)
                /\ r.totalPages <= 1 => {g._id : g \in Range(r.shirts)} = designs


(***************************************************************************)
(* Properties of updateShirt (SpecUpdate).                                 *)
(***************************************************************************)
HasDuplicateSize(sizes) ==
    \E i, j \in 1..Len(sizes) : i # j /\ sizes[i].sizeReferenceId = sizes[j].sizeReferenceId

Ends(p, op) == pc[p] # "idle" /\ pc'[p] = "idle" /\ loc[p].op = op

AllOutOfStock(sizes) == Len(sizes) > 0 /\ \A i \in 1..Len(sizes) : sizes[i].stock = 0

\* C16: an update whose sizes are all at stock 0 is rejected with an error
\* and writes no record: it never gets past the parsing of its body to end
\* with a result.
C16_AllZeroStockRejected ==
    [][\A p \in Procs :
          (Ends(p, "update") /\ AllOutOfStock(loc[p].data.sizes)) =>
              /\ loc'[p].result.kind = "error"
              /\ loc'[p].w0 = 0]_vars


\* C17: an update that ends with the error of an entry of its sizes (a size
\* reference that does not exist) has changed no record: the design and its
\* variants are as they were before the call.
C17_InvalidBatchWritesNothing ==
    [][\A p \in Procs :
          (Ends(p, "update") /\ loc'[p].result = Error("SizeReferenceNotFound")) =>
              /\ loc'[p].w0 = 0
              /\ loc'[p].created = <<>>
              /\ loc'[p].updated = <<>>]_vars


\* The size of the variant with the given id.
SizeOfVariant(sizeDocs, id) == (CHOOSE v \in sizeDocs : v.id = id).sizeReferenceId

\* The sizes of the variants in a list of ids.
SizesOf(sizeDocs, ids) == {SizeOfVariant(sizeDocs, ids[i]) : i \in 1..Len(ids)}

\* C18: when an update with sizes succeeds, an entry is left out if its stock
\* is <= 0 or its size is that of the variant updated through
\* currentSizeVariant; every other entry is in exactly one of the two lists,
\* the updated one or the created one, which hold nothing else from the
\* batch; updatedCount and createdCount are the lengths of the lists.
C18_EntriesClassified ==
    [][\A p \in Procs :
          (Ends(p, "update") /\ loc'[p].result.kind = "updated") =>
              LET d == loc[p].data
                  r == loc'[p].result
                  primary == d.currentSizeVariant.present /\ Len(r.updatedShirtSizes) > 0
                  primarySize == IF primary
                                 THEN SizeOfVariant(shirtSizes', r.updatedShirtSizes[1])
                                 ELSE ""
                  fromBatch == IF primary THEN Tail(r.updatedShirtSizes)
                               ELSE r.updatedShirtSizes
                  kept == {k \in 1..Len(d.sizes) :
                              /\ d.sizes[k].stock > 0
                              /\ d.sizes[k].sizeReferenceId # primarySize}
                  updatedSizes == SizesOf(shirtSizes', fromBatch)
                  createdSizes == SizesOf(shirtSizes', r.createdShirtSizes)
              IN  /\ \A k \in kept :
                        (d.sizes[k].sizeReferenceId \in updatedSizes)
                            # (d.sizes[k].sizeReferenceId \in createdSizes)
                  /\ Len(fromBatch) + Len(r.createdShirtSizes) = Cardinality(kept)
                  /\ r.updatedCount = Len(r.updatedShirtSizes)
                  /\ r.createdCount = Len(r.createdShirtSizes)]_vars


\* A body that gives a new price for the current variant and nothing else.
PriceOnly(d) ==
    /\ d.name = "" /\ d.shirtTypeId = "" /\ d.discount = NoDiscount
    /\ d.currentSizeVariant.present
    /\ d.currentSizeVariant.price # Undefined
    /\ d.currentSizeVariant.stock = Undefined
    /\ d.sizes = <<>>

\* The variants of the design of handler p other than its first one in these steps.
SiblingsKept(p) ==
    LET mine == SortById({v \in shirtSizes : v.shirtId = loc[p].shirtId})
    IN  \A k \in 2..Len(mine) : mine[k] \in shirtSizes'

\* C19: an update that changes only the price and has no sizes returns
\* updatedCount = 0 and createdCount = 0, and none of its steps changes a
\* sibling variant of the design.
C19_PriceOnlyCounts ==
    [][\A p \in Procs :
          /\ (Ends(p, "update") /\ loc'[p].result.kind = "updated"
              /\ PriceOnly(loc[p].data)) =>
                 /\ loc'[p].result.updatedCount = 0
                 /\ loc'[p].result.createdCount = 0
          /\ (pc[p] # "idle" /\ pc'[p] # pc[p] /\ loc[p].op = "update"
              /\ PriceOnly(loc[p].data)) => SiblingsKept(p)]_vars


\* The variant belongs to a design of the seller.
OwnedBy(v, userId) == \E s \in shirts : s.id = v.shirtId /\ s.userId = userId

\* C20: the steps of an update touch only records of the calling seller:
\* every variant it loads to match the batch against, every variant it
\* changes and every variant it creates belongs to a design of the caller,
\* and so does the design it saves.
C20_OwnRecordsOnly ==
    [][\A p \in Procs :
          (pc[p] # "idle" /\ pc'[p] # pc[p] /\ loc[p].op = "update") =>
              /\ \A v \in (shirtSizes \ shirtSizes') \cup (shirtSizes' \ shirtSizes) :
                    v.shirtId = loc[p].shirtId /\ OwnedBy(v, loc[p].userId)
              /\ \A s \in (shirts \ shirts') \cup (shirts' \ shirts) :
                    s.userId = loc[p].userId
              /\ pc'[p] # "idle" =>
                    \A k \in 1..Len(loc'[p].existing) :
                        OwnedBy(loc'[p].existing[k], loc[p].userId)]_vars

\* Seller u1 has updated design 1 with a batch that has XXL while the design
\* of the same name of seller u2 has a variant XXL: two variants were created
\* for design 1 and the variants of seller u2 are as they were.
C20_CreatedBesideNamesake ==
    \E p \in Procs :
        /\ Returned(p, "update")
        /\ loc[p].userId = "u1" /\ loc[p].shirtId = 1
        /\ loc[p].result.kind = "updated"
        /\ loc[p].result.createdCount = 2
        /\ shirts = StoreSameName.shirts
        /\ {v \in StoreSameName.shirtSizes : v.shirtId = 2} \subseteq shirtSizes
        /\ Cardinality({v \in shirtSizes : v.sizeReferenceId = "oidXXL"}) = 2


(***************************************************************************)
(* Further properties of the service (Spec).                               *)
(***************************************************************************)
\* C21: a listing asked for with groupBy 'design' is never answered from the
\* cache: what it returns is a grouped result computed from the store.
C21_GroupedNeverFromCache ==
    \A p \in Procs :
        (Returned(p, "list") /\ loc[p].result.kind = "list"
         /\ loc[p].result.filters.groupBy = "design") =>
            /\ ~loc[p].result.fromCache
            /\ loc[p].result.value.grouped


(***************************************************************************)
(* Further properties of listShirts (SpecList).                            *)
(***************************************************************************)
\* C22: in a grouped listing with a size filter, every group covers all the
\* variants of its design that pass the other filters (type, price range),
\* not only the variant of the size asked for: its variants are those and
\* its totalStock is the sum of their stock.
C22_GroupsCoverOtherSizes ==
    (session.filters.groupBy = "design" /\ session.filters.size # "") =>
        \A g \in GroupsReturned :
            LET others == {v \in Matching([session.filters EXCEPT !.size = ""]) :
                              v.shirtId = g._id}
            IN  /\ {v._id : v \in Range(g.variants)} = {v.id : v \in others}
                /\ g.totalStock = SumOfStock(others)


(***************************************************************************)
(* Two sellers' sessions that update the same design at the same time,     *)
(* each with batches of sizes the other does not send.                     *)
(***************************************************************************)
\* A body with a sizes batch and nothing else.
SizesOnly(sizes) ==
    [name |-> "", shirtTypeId |-> "", discount |-> NoDiscount,
     currentSizeVariant |-> NoVariant, sizes |-> sizes]

\* The batches of each handler: no size is in the batches of both, and no
\* size is in two different batches.
PairInputs(p) ==
    IF p = "p1"
    THEN {SizesOnly(<<SizeVariant("oidXL", 2600000, 9), SizeVariant("oidXXL", 3000000, 4)>>)}
    ELSE {SizesOnly(<<SizeVariant("oidM", 2800000, 3)>>),
          SizesOnly(<<SizeVariant("oidL", 2700000, 8)>>)}

InitPair ==
    /\ shirts = StoreOneDesign.shirts
    /\ shirtSizes = StoreOneDesign.shirtSizes
    /\ cache = WarmCache(SeedFilters, StoreOneDesign)
    /\ nextShirtId = 3
    /\ nextSizeId = 5
    /\ pc = [p \in Procs |-> "idle"]
    /\ loc = [p \in Procs |-> IdleLoc]
    /\ opsStarted = 0
    /\ storeVer = 0
    /\ committed = 0
    /\ calc = NoCalc
    /\ keyReq = NoKeyReq
    /\ session = NoSession
    /\ redis = NoRedis

updateShirt_pair(p) == updateShirtHandler(p, PairInputs(p))

NextPair ==
    \E p \in Procs :
        \/ updateShirt_pair(p)
        \/ updateShirt_saveShirt(p)
        \/ updateShirt_loadSizes(p)
        \/ updateShirt_sizeEntry(p)
        \/ invalidateShirtListCache_keys(p)
        \/ invalidateShirtListCache_del(p)
        \/ auditAndReturn(p)

SpecPair == InitPair /\ [][NextPair]_vars

\* C23: of two updates of one design with batches of different sizes, each
\* takes full effect whatever the interleaving: when a call ends it has not
\* failed, and every entry of its batch with stock > 0 is a variant of the
\* design with the entry's price and stock (no other batch has that size, so
\* it stays so).
C23_DisjointUpdatesApply ==
    [][\A p \in Procs :
          (Ends(p, "update") /\ Len(loc[p].data.sizes) > 0) =>
              /\ loc'[p].result.kind = "updated"
              /\ \A k \in 1..Len(loc[p].data.sizes) :
                    LET e == loc[p].data.sizes[k]
                    IN  e.stock > 0 =>
                          \E v \in shirtSizes' :
                              /\ v.shirtId = loc[p].shirtId
                              /\ v.sizeReferenceId = e.sizeReferenceId
                              /\ v.price = e.price
                              /\ v.stock = e.stock]_vars


(***************************************************************************)
(* getRedisClient on its own: the request handlers ask for the client      *)
(* while the connection is made, fails, times out or is lost.  Whether     *)
(* isOpen is already true of a client whose connect() has not settled is   *)
(* the library's choice (node-redis sets it when connect() is called), so  *)
(* both are possible.                                                      *)
(***************************************************************************)
InitRedis ==
    /\ shirts = {}
    /\ shirtSizes = {}
    /\ cache = {}
    /\ nextShirtId = 1
    /\ nextSizeId = 1
    /\ pc = [p \in Procs |-> "idle"]
    /\ loc = [p \in Procs |-> IdleLoc]
    /\ opsStarted = 0
    /\ storeVer = 0
    /\ committed = 0
    /\ calc = NoCalc
    /\ keyReq = NoKeyReq
    /\ session = NoSession
    /\ \E b \in BOOLEAN : redis = [NoRedis EXCEPT !.openWhilePending = b]

\* redisClient.isOpen
isOpen(r) ==
    \/ r.client \in {"connected", "ready"}
    \/ r.client = "connecting" /\ r.openWhilePending

\* getRedisClient goes on to createClient: the client is not there and open,
\* no attempt has failed, none is in progress.
StartsAttempt(r) ==
    /\ ~(r.client # "none" /\ isOpen(r))
    /\ ~(r.attempted /\ ~r.available)
    /\ ~(r.attempted /\ r.client = "none")

\* The call of getRedisClient up to its return or to the await of the race
\* between connect() and the 2-second timer.
getRedisClient(p) ==
    /\ pc[p] = "idle"
    /\ opsStarted < MaxCalls
    /\ opsStarted' = opsStarted + 1
    /\ LET l == [IdleLoc EXCEPT !.op = "redis", !.asOf = opsStarted + 1]
       IN  IF redis.client # "none" /\ isOpen(redis)
           THEN /\ Finish(p, l, [kind |-> "client", state |-> redis.client], "return")
                /\ UNCHANGED redis
           ELSE IF ~StartsAttempt(redis)
                THEN /\ Finish(p, l, [kind |-> "null"], "return")
                     /\ UNCHANGED redis
                ELSE /\ pc' = [pc EXCEPT ![p] = "rc_wait"]
                     /\ loc' = [loc EXCEPT ![p] = l]
                     /\ redis' = [redis EXCEPT !.attempted = TRUE,
                                               !.client = "connecting",
                                               !.inFlight = @ + 1,
                                               !.created = @ + 1]
    /\ UNCHANGED <<storeVars, cache, storeVer, committed, calc, keyReq, session>>

\* The 'connect' event of the client: redisAvailable = true.
onConnect ==
    /\ redis.client = "connecting"
    /\ redis' = [redis EXCEPT !.client = "connected", !.available = TRUE]
    /\ UNCHANGED <<storeVars, cache, pc, loc, opsStarted, storeVer, committed, calc,
                   keyReq, session>>

\* connect() resolves: redisAvailable = true; return redisClient.
connectResolved(p) ==
    /\ pc[p] = "rc_wait"
    /\ redis.client = "connected"
    /\ redis' = [redis EXCEPT !.client = "ready", !.available = TRUE, !.inFlight = @ - 1]
    /\ Finish(p, loc[p], [kind |-> "client", state |-> "ready"], "return")
    /\ UNCHANGED <<storeVars, cache, opsStarted, storeVer, committed, calc, keyReq,
                   session>>

\* connect() rejects (the 'error' event has set redisAvailable = false), or the
\* 2-second timer wins the race while the client is still at it: the catch
\* block sets redisClient = null, redisAvailable = false and returns null.
connectFailed(p) ==
    /\ pc[p] = "rc_wait"
    /\ redis.client \in {"connecting", "connected"}
    /\ \E timer \in BOOLEAN :
         /\ redis.client = "connected" => timer
         /\ redis' = [redis EXCEPT !.client = "none", !.available = FALSE,
                                   !.inFlight = @ - 1, !.failed = TRUE,
                                   !.orphan = @ \/ timer]
    /\ Finish(p, loc[p], [kind |-> "null"], "return")
    /\ UNCHANGED <<storeVars, cache, opsStarted, storeVer, committed, calc, keyReq,
                   session>>

\* An event of a client that the catch block has dropped while it was still
\* connecting: 'connect' sets redisAvailable = true, 'error' sets it false.
onOrphanEvent ==
    /\ redis.orphan
    /\ \E connected \in BOOLEAN :
         redis' = [redis EXCEPT !.available = connected, !.orphan = FALSE]
    /\ UNCHANGED <<storeVars, cache, pc, loc, opsStarted, storeVer, committed, calc,
                   keyReq, session>>

\* The 'error' event of the connected client (reconnectStrategy: false, the
\* client closes): redisAvailable = false.
onError ==
    /\ redis.client = "ready"
    /\ redis' = [redis EXCEPT !.client = "closed", !.available = FALSE]
    /\ UNCHANGED <<storeVars, cache, pc, loc, opsStarted, storeVer, committed, calc,
                   keyReq, session>>

NextRedis ==
    \/ \E p \in Procs : getRedisClient(p)
    \/ onConnect
    \/ \E p \in Procs : connectResolved(p)
    \/ \E p \in Procs : connectFailed(p)
    \/ onOrphanEvent
    \/ onError

SpecRedis == InitRedis /\ [][NextRedis]_vars

\* C24: getRedisClient never has two connection attempts in flight and never
\* starts one after an attempt has failed: a call made while an attempt is
\* pending, or after one has failed, returns null and creates no client.
C24_OneAttemptOnly ==
    /\ [](redis.inFlight <= 1)
    /\ [][\A p \in Procs :
            (Calls(p, "redis") /\ (redis.inFlight > 0 \/ redis.failed)) =>
                /\ pc'[p] = "idle"
                /\ loc'[p].result = [kind |-> "null"]
                /\ redis'.created = redis.created]_vars


\* C25: once a listing that missed the cache and a write that changed the
\* store and invalidated the cache without failure have both returned, the
\* cache holds no entry computed before that write changed the store.
C25_NoStaleReinsert ==
    \A p, q \in Procs :
        (/\ Succeeded(p) /\ loc[p].w0 > 0 /\ ~loc[p].cacheFailed
         /\ Returned(q, "list") /\ loc[q].result.kind = "list"
         /\ ~loc[q].result.fromCache /\ ~loc[q].cacheFailed) =>
            \A e \in cache : e.asOf >= loc[p].w0


\* C27: when no call is in progress, every variant in the store is a variant
\* of a design that is in the store.
C27_NoOrphanVariants ==
    (\A p \in Procs : pc[p] = "idle") =>
        \A v \in shirtSizes : \E s \in shirts : s.id = v.shirtId

\* C28: a createShirt or batchCreateShirts call that has failed because its
\* shirt type or one of its size references does not exist has persisted no
\* record.
C28_FailedCreateWritesNothing ==
    \A p \in Procs :
        (/\ pc[p] = "idle" /\ loc[p].op \in {"create", "batch"}
         /\ loc[p].result \in {Error("ShirtTypeNotFound"), Error("SizeReferenceNotFound")}) =>
            loc[p].w0 = 0

\* C29: an updateShirt or deleteShirt call that has changed a record has
\* made its cache invalidation by the time it returns or throws.
C29_MutationInvalidates ==
    \A p \in Procs :
        (/\ pc[p] = "idle" /\ loc[p].op \in {"update", "delete"}
         /\ loc[p].result # NoData /\ loc[p].w0 > 0) =>
            \E i \in 1..Len(loc[p].trace) : loc[p].trace[i] = "invalidate"

(***************************************************************************)
(* Further properties of generateCacheKey (SpecKey).                       *)
(***************************************************************************)
\* C26: two requests that differ in the size, the type, minPrice, maxPrice,
\* the page or the limit they carry never get the same cache key.
C26_CacheKeyInjective ==
    (/\ keyReq[1].key # "" /\ keyReq[2].key # ""
     /\ \E i \in 1..Len(DimOrder) :
           DimValue(keyReq[1].filters, DimOrder[i]) # DimValue(keyReq[2].filters, DimOrder[i]))
        => keyReq[1].key # keyReq[2].key


(***************************************************************************)
(* Further properties of updateShirt (SpecUpdate).                         *)
(***************************************************************************)
\* C30: when an update has sizes and no currentSizeVariant and succeeds,
\* every entry with stock > 0 was applied as an update or as a create:
\* updatedCount + createdCount is the number of those entries.
C30_EveryStockedEntryApplied ==
    [][\A p \in Procs :
          (/\ Ends(p, "update") /\ loc'[p].result.kind = "updated"
           /\ Len(loc[p].data.sizes) > 0
           /\ ~loc[p].data.currentSizeVariant.present) =>
              loc'[p].result.updatedCount + loc'[p].result.createdCount =
                  Cardinality({k \in 1..Len(loc[p].data.sizes) :
                                  loc[p].data.sizes[k].stock > 0})]_vars

====
